---------------------------- MODULE Spec2Model ----------------------------
(***************************************************************************)
(* A model of the 2D23D geometric detection core:                          *)
(*   - GridDetector.detect            (d23d/detection/grid_detector.py)    *)
(*   - merge_wall_segments            (d23d/detection/wall_detector.py)    *)
(*   - detect_wall_intersections and adjust_walls_at_intersections         *)
(*                                    (d23d/detection/wall_intersections.py)*)
(*   - group_lines_into_foundations   (d23d/detection/foundation_detector.py)*)
(*                                                                         *)
(* Coordinates are integers (drawing units, mm).  A Python float that the  *)
(* code derives by division is kept as an exact fraction [n, d] in lowest  *)
(* terms; a comparison of distances or angles is done on the squares or    *)
(* on cross and dot products, which decides it exactly.                    *)
(***************************************************************************)
EXTENDS Integers, Sequences, FiniteSets, TLC

VARIABLES
    lines,          \* GridDetector.detect: the argument `lines`
    g_pc,           \* "call" before detect has run, "done" after
    grid,           \* what detect returned (or raised)
    walls,          \* merge_wall_segments: the argument `walls`
    max_iterations, \* merge_wall_segments: the argument `max_iterations`
    merged_walls,   \* merge_wall_segments: the working list `merged_walls`
    iteration,      \* merge_wall_segments: the pass counter `iteration`
    merged_count,   \* merge_wall_segments: `merged_count` of the last pass
    pass_input,     \* the list the last pass scanned
    pass_output,    \* merge_wall_segments: `new_walls` at the end of the last pass
    pass_pairs,     \* the (i, j, connection_type) the last pass merged, in order
    m_pc,           \* "idle", "call", "loop", "done"
    m_exit,         \* how the loop was left: "empty", "break", "cap"
    merging_passes, \* passes of the current call that merged something
    call_no,        \* 1: the call on the input; 2: the call on its own output
    first_result,   \* what call 1 returned and how it left the loop
    i_walls,        \* detect_wall_intersections: the argument `walls`
    intersections,  \* what detect_wall_intersections returned
    adjusted_walls, \* what adjust_walls_at_intersections returned
    i_pc,           \* "idle", "detect", "adjust", "done"
    wi,             \* a WallIntersection object
    wi_type,        \* what reading wi.intersection_type gave
    f_lines,        \* group_lines_into_foundations: the argument `lines`
    f_pc,           \* "idle", "call", "done"
    f_result        \* what the call returned (or raised)

gridVars == <<lines, g_pc, grid>>

mergeVars == <<walls, max_iterations, merged_walls, iteration, merged_count, pass_input,
               pass_output, pass_pairs, m_pc, m_exit, merging_passes, call_no,
               first_result>>

intersectVars == <<i_walls, intersections, adjusted_walls, i_pc>>

typeVars == <<wi, wi_type>>

foundationVars == <<f_lines, f_pc, f_result>>

vars == <<gridVars, mergeVars, intersectVars, typeVars, foundationVars>>

\* the variables of GridDetector.detect while no call is under way
GridIdle ==
    /\ lines = <<>>
    /\ g_pc = "idle"
    /\ grid = [status |-> "idle"]

\* the variables of merge_wall_segments while no call is under way
MergeIdle ==
    /\ walls = <<>>
    /\ max_iterations = 0
    /\ merged_walls = <<>>
    /\ iteration = 0
    /\ merged_count = 0
    /\ pass_input = <<>>
    /\ pass_output = <<>>
    /\ pass_pairs = <<>>
    /\ m_pc = "idle"
    /\ m_exit = "none"
    /\ merging_passes = 0
    /\ call_no = 0
    /\ first_result = [walls |-> <<>>, exit |-> "none", merging_passes |-> 0]

\* the variables of the wall intersection functions while no call is under way
IntersectIdle ==
    /\ i_walls = <<>>
    /\ intersections = <<>>
    /\ adjusted_walls = <<>>
    /\ i_pc = "idle"

\* no WallIntersection object under observation
TypeIdle ==
    /\ wi = [wall_indices |-> <<>>]
    /\ wi_type = "idle"

\* the variables of group_lines_into_foundations while no call is under way
FoundationIdle ==
    /\ f_lines = <<>>
    /\ f_pc = "idle"
    /\ f_result = [status |-> "idle"]

---------------------------------------------------------------------------
(* Integer helpers *)

Abs(n) == IF n < 0 THEN -n ELSE n

Min2(a, b) == IF a <= b THEN a ELSE b

Max2(a, b) == IF a >= b THEN a ELSE b

RECURSIVE Gcd(_, _)
Gcd(a, b) == IF b = 0 THEN a ELSE Gcd(b, a % b)

RECURSIVE SeqSum(_)
SeqSum(s) == IF Len(s) = 0 THEN 0 ELSE Head(s) + SeqSum(Tail(s))

Range(s) == {s[i] : i \in DOMAIN s}

---------------------------------------------------------------------------
(* Python floats as exact fractions.  d = 0 stands for None. *)

None == [n |-> 0, d |-> 0]

IsNone(r) == r.d = 0

Rat(n, d) ==
    LET g == Gcd(Abs(n), Abs(d))
        s == IF d < 0 THEN -1 ELSE 1
    IN  [n |-> s * (n \div g), d |-> s * (d \div g)]

RInt(k) == [n |-> k, d |-> 1]

RAdd(a, b) == Rat(a.n * b.d + b.n * a.d, a.d * b.d)

RSub(a, b) == Rat(a.n * b.d - b.n * a.d, a.d * b.d)

RMul(a, b) == Rat(a.n * b.n, a.d * b.d)

\* a / b for b # 0
RDiv(a, b) == Rat(a.n * b.d, a.d * b.n)

RAbs(a) == [n |-> Abs(a.n), d |-> a.d]

RLt(a, b) == a.n * b.d < b.n * a.d

RLe(a, b) == a.n * b.d <= b.n * a.d

RMax(a, b) == IF RLt(a, b) THEN b ELSE a

RMin(a, b) == IF RLt(b, a) THEN b ELSE a

RECURSIVE RSum(_)
RSum(s) == IF Len(s) = 0 THEN RInt(0) ELSE RAdd(Head(s), RSum(Tail(s)))

\* np.mean of a non-empty list
RMean(s) == RDiv(RSum(s), RInt(Len(s)))

---------------------------------------------------------------------------
(* core/models.py: Point2D, Line2D *)

Pt(x, y) == [x |-> x, y |-> y]

Ln(sx, sy, ex, ey) == [start |-> Pt(sx, sy), end |-> Pt(ex, ey)]

\* Point2D.distance_to, squared
DistSq(p, q) == (p.x - q.x) * (p.x - q.x) + (p.y - q.y) * (p.y - q.y)

\* Line2D.length, squared
LengthSq(l) == DistSq(l.start, l.end)

\* Line2D.angle is atan2(dy, dx); the tests below compare it with a tolerance
\* t through tan(t): |dy| < tan(t) * |dx| says the direction is within t of
\* the X axis.  atan2(0, 0) is 0, so a zero-length line counts as horizontal.
Dx(l) == l.end.x - l.start.x

Dy(l) == l.end.y - l.start.y

---------------------------------------------------------------------------
(* detection/grid_detector.py: GridDetector with its default parameters *)

MinLineLength == 1000

MinGridLines == 2

\* tan(angle_tolerance) = tan(0.087) = 0.08722 as AngleTolTanNum / AngleTolTanDen
AngleTolTanNum == 8722

AngleTolTanDen == 100000

SpacingTolerance == Rat(15, 100)

\* Line2D.is_horizontal(angle_tolerance)
IsHorizontal(l) ==
    \/ Dx(l) = 0 /\ Dy(l) = 0
    \/ Dx(l) # 0 /\ Abs(Dy(l)) * AngleTolTanDen < AngleTolTanNum * Abs(Dx(l))

\* Line2D.is_vertical(angle_tolerance)
IsVertical(l) ==
    Dy(l) # 0 /\ Abs(Dx(l)) * AngleTolTanDen < AngleTolTanNum * Abs(Dy(l))

FilterByLengthOmitted(ls) == ls

\* detect, step 1: the length filter
FilterByLength(ls) == SelectSeq(ls, LAMBDA l : LengthSq(l) >= MinLineLength * MinLineLength)

\* _cluster_by_orientation: horizontal first, else vertical, else dropped
ClusterHorizontal(ls) == SelectSeq(ls, IsHorizontal)

ClusterVertical(ls) == SelectSeq(ls, LAMBDA l : ~IsHorizontal(l) /\ IsVertical(l))

\* the position of a line on its axis: midpoint X (vertical) or Y (horizontal)
Position(l, is_vertical) ==
    IF is_vertical THEN Rat(l.start.x + l.end.x, 2) ELSE Rat(l.start.y + l.end.y, 2)

\* a sort that is left out: the lines stay in input order
SortByPositionOmitted(ls, is_vertical) == ls

\* list.sort(key=position): a stable sort, ascending.  The last element is
\* inserted into the sorted rest behind every element of equal position.
RECURSIVE InsertByPos(_, _, _)
InsertByPos(l, sorted, is_vertical) ==
    IF Len(sorted) = 0 THEN <<l>>
    ELSE IF RLt(Position(l, is_vertical), Position(Head(sorted), is_vertical))
         THEN <<l>> \o sorted
         ELSE <<Head(sorted)>> \o InsertByPos(l, Tail(sorted), is_vertical)

RECURSIVE SortByPosition(_, _)
SortByPosition(ls, is_vertical) ==
    IF Len(ls) = 0 THEN <<>>
    ELSE InsertByPos(ls[Len(ls)], SortByPosition(SubSeq(ls, 1, Len(ls) - 1), is_vertical),
                     is_vertical)

\* the gaps between consecutive positions
Spacings(sorted, is_vertical) ==
    [i \in 1 .. Len(sorted) - 1 |->
        RAbs(RSub(Position(sorted[i + 1], is_vertical), Position(sorted[i], is_vertical)))]

RECURSIVE InsertRat(_, _)
InsertRat(r, sorted) ==
    IF Len(sorted) = 0 THEN <<r>>
    ELSE IF RLe(r, Head(sorted)) THEN <<r>> \o sorted
         ELSE <<Head(sorted)>> \o InsertRat(r, Tail(sorted))

RECURSIVE SortRat(_)
SortRat(s) == IF Len(s) = 0 THEN <<>> ELSE InsertRat(Head(s), SortRat(Tail(s)))

\* np.median
Median(s) ==
    LET t == SortRat(s)
        n == Len(t)
    IN  IF n % 2 = 1 THEN t[(n + 1) \div 2]
        ELSE RDiv(RAdd(t[n \div 2], t[(n \div 2) + 1]), RInt(2))

\* _find_dominant_spacing
FindDominantSpacing(spacings) ==
    IF Len(spacings) = 0 THEN RInt(0)
    ELSE IF Len(spacings) = 1 THEN spacings[1]
         ELSE Median(spacings)

\* the confidence of line i of n from the gaps next to it; dominant # 0
Deviation(spacing, dominant) == RDiv(RAbs(RSub(spacing, dominant)), dominant)

Half == Rat(1, 2)

LineConfidence(i, n, spacings, dominant) ==
    IF i = 1 THEN
        IF i <= Len(spacings)
        THEN RMax(Half, RSub(RInt(1), Deviation(spacings[i], dominant)))
        ELSE Rat(7, 10)
    ELSE IF i = n THEN
        RMax(Half, RSub(RInt(1), Deviation(spacings[i - 1], dominant)))
    ELSE
        RMax(Half, RSub(RInt(1),
                        RDiv(RAdd(Deviation(spacings[i - 1], dominant),
                                  Deviation(spacings[i], dominant)), RInt(2))))

\* _detect_grid_lines: [raised, lines]; raised is the ZeroDivisionError of
\* the division by a dominant spacing of 0.0
DetectGridLines(ls, is_vertical) ==
    LET sorted == SortByPosition(ls, is_vertical)
        spacings == Spacings(sorted, is_vertical)
        dominant == FindDominantSpacing(spacings)
        n == Len(sorted)
    IN  IF Len(ls) = 0 \/ Len(spacings) = 0 THEN [raised |-> FALSE, lines |-> <<>>]
        ELSE IF dominant.n = 0 THEN [raised |-> TRUE, lines |-> <<>>]
        ELSE [raised |-> FALSE,
              lines |-> [i \in 1 .. n |->
                  [line |-> sorted[i],
                   label |-> <<>>,
                   is_vertical |-> is_vertical,
                   confidence |-> LineConfidence(i, n, spacings, dominant),
                   spacing_to_next |-> IF i <= Len(spacings) THEN spacings[i] ELSE None]]]

\* chr(ord('A') + k) and str(k), as sequences of character codes
OrdA == 65

Ord0 == 48

RECURSIVE Str(_)
Str(k) == IF k < 10 THEN <<Ord0 + k>> ELSE Str(k \div 10) \o <<Ord0 + (k % 10)>>

\* a label whose first letter forgets the - 1: index 26 reads "BA"
LabelOffByOne(i, is_vertical) ==
    IF is_vertical THEN Str(i + 1)
    ELSE IF i < 26 THEN <<OrdA + i>>
         ELSE <<OrdA + (i \div 26), OrdA + (i % 26)>>

\* the label of the line at 0-based list index i
Label(i, is_vertical) ==
    IF is_vertical THEN Str(i + 1)
    ELSE IF i < 26 THEN <<OrdA + i>>
         ELSE <<OrdA + (i \div 26) - 1, OrdA + (i % 26)>>

\* _label_grid_lines
LabelGridLines(grid_lines, is_vertical) ==
    [i \in 1 .. Len(grid_lines) |->
        [grid_lines[i] EXCEPT !.label = Label(i - 1, is_vertical)]]

\* the point taken from the wrong line of each axis, the confidence of the
\* horizontal line alone
IntersectionCrossed(h_line, v_line) ==
    [point |-> [x |-> Position(h_line.line, TRUE), y |-> Position(v_line.line, FALSE)],
     grid_h |-> h_line.label,
     grid_v |-> v_line.label,
     confidence |-> h_line.confidence]

\* the intersection of one horizontal and one vertical grid line
Intersection(h_line, v_line) ==
    [point |-> [x |-> Position(v_line.line, TRUE), y |-> Position(h_line.line, FALSE)],
     grid_h |-> h_line.label,
     grid_v |-> v_line.label,
     confidence |-> RMin(h_line.confidence, v_line.confidence)]

\* intersections of the lines paired by index (zip), not of all pairs
FindIntersectionsZip(h_lines, v_lines) ==
    [k \in 1 .. Min2(Len(h_lines), Len(v_lines)) |-> Intersection(h_lines[k], v_lines[k])]

\* _find_intersections: for h_line in h_lines: for v_line in v_lines
FindIntersections(h_lines, v_lines) ==
    LET H == Len(h_lines)
        V == Len(v_lines)
    IN  [k \in 1 .. H * V |->
            Intersection(h_lines[((k - 1) \div V) + 1], v_lines[((k - 1) % V) + 1])]

\* [gl.spacing_to_next for gl in lines if gl.spacing_to_next]: None and 0.0
\* are both falsy
TruthySpacings(grid_lines) ==
    LET kept == SelectSeq(grid_lines,
                          LAMBDA gl : ~IsNone(gl.spacing_to_next) /\ gl.spacing_to_next.n # 0)
    IN  [i \in 1 .. Len(kept) |-> kept[i].spacing_to_next]

\* _is_spacing_regular
IsSpacingRegular(spacings, avg_spacing) ==
    /\ Len(spacings) > 0
    /\ ~IsNone(avg_spacing)
    /\ \A i \in 1 .. Len(spacings) :
          ~RLt(SpacingTolerance, Deviation(spacings[i], avg_spacing))

\* _check_regularity
CheckRegularity(h_lines, v_lines) ==
    LET h_spacings == TruthySpacings(h_lines)
        v_spacings == TruthySpacings(v_lines)
        avg_h == IF Len(h_spacings) > 0 THEN RMean(h_spacings) ELSE None
        avg_v == IF Len(v_spacings) > 0 THEN RMean(v_spacings) ELSE None
        h_regular == IF Len(h_spacings) > 0 THEN IsSpacingRegular(h_spacings, avg_h) ELSE TRUE
        v_regular == IF Len(v_spacings) > 0 THEN IsSpacingRegular(v_spacings, avg_v) ELSE TRUE
    IN  [is_regular |-> h_regular /\ v_regular, avg_h |-> avg_h, avg_v |-> avg_v]

\* _calculate_confidence
CalculateConfidence(h_lines, v_lines, is_regular) ==
    LET h_conf == RMean([i \in 1 .. Len(h_lines) |-> h_lines[i].confidence])
        v_conf == RMean([i \in 1 .. Len(v_lines) |-> v_lines[i].confidence])
        base_confidence == RDiv(RAdd(h_conf, v_conf), RInt(2))
        regularity_bonus == IF is_regular THEN Rat(1, 10) ELSE RInt(0)
        line_count == Len(h_lines) + Len(v_lines)
        count_bonus == IF 4 <= line_count /\ line_count <= 20 THEN Rat(1, 10)
                       ELSE IF line_count > 20 THEN Rat(5, 100)
                       ELSE RInt(0)
    IN  RMin(RInt(1), RAdd(RAdd(base_confidence, regularity_bonus), count_bonus))

\* _calculate_grid_bbox
RECURSIVE RMinOf(_)
RMinOf(s) == IF Len(s) = 1 THEN s[1] ELSE RMin(Head(s), RMinOf(Tail(s)))

RECURSIVE RMaxOf(_)
RMaxOf(s) == IF Len(s) = 1 THEN s[1] ELSE RMax(Head(s), RMaxOf(Tail(s)))

CalculateGridBbox(h_lines, v_lines) ==
    LET h_positions == [i \in 1 .. Len(h_lines) |-> Position(h_lines[i].line, FALSE)]
        v_positions == [i \in 1 .. Len(v_lines) |-> Position(v_lines[i].line, TRUE)]
    IN  [min_x |-> RMinOf(v_positions), max_x |-> RMaxOf(v_positions),
         min_y |-> RMinOf(h_positions), max_y |-> RMaxOf(h_positions)]

\* GridDetector.detect.  status "None" is the None return, "grid" a
\* BuildingGrid, "ZeroDivisionError" the exception _detect_grid_lines lets out.
Detect(ls) ==
    LET filtered_lines == FilterByLength(ls)
        h_lines == ClusterHorizontal(filtered_lines)
        v_lines == ClusterVertical(filtered_lines)
        h_detected == DetectGridLines(h_lines, FALSE)
        v_detected == DetectGridLines(v_lines, TRUE)
        h_grid_lines == LabelGridLines(h_detected.lines, FALSE)
        v_grid_lines == LabelGridLines(v_detected.lines, TRUE)
        regularity == CheckRegularity(h_grid_lines, v_grid_lines)
    IN  IF Len(filtered_lines) < MinGridLines * 2 THEN [status |-> "None"]
        ELSE IF Len(h_lines) < MinGridLines \/ Len(v_lines) < MinGridLines
             THEN [status |-> "None"]
        ELSE IF h_detected.raised \/ v_detected.raised THEN [status |-> "ZeroDivisionError"]
        ELSE IF Len(h_detected.lines) = 0 \/ Len(v_detected.lines) = 0
             THEN [status |-> "None"]
        ELSE [status |-> "grid",
              horizontal_lines |-> h_grid_lines,
              vertical_lines |-> v_grid_lines,
              intersections |-> FindIntersections(h_grid_lines, v_grid_lines),
              bounding_box |-> CalculateGridBbox(h_grid_lines, v_grid_lines),
              is_regular |-> regularity.is_regular,
              avg_h_spacing |-> regularity.avg_h,
              avg_v_spacing |-> regularity.avg_v,
              confidence |-> CalculateConfidence(h_grid_lines, v_grid_lines,
                                                 regularity.is_regular)]

---------------------------------------------------------------------------
(* The grid specification: detect applied to bounded inputs *)

\* the largest number of pool lines in one input
MaxGridLines == 9

\* the largest number of horizontal lines of a ladder input
MaxLadder == 54

GridExtent == 12 * 1000

HLine(y) == Ln(0, y, GridExtent, y)

VLine(x) == Ln(x, 0, x, GridExtent)

\* Lines of a drawing: five horizontal axes 3000 apart, one 450 off the
\* pattern, one drawn twice (reversed, same position); four vertical axes
\* 4000 apart; a line below min_line_length; a diagonal.  The order is
\* neither by position nor by orientation.
GridPool ==
    << HLine(6000), VLine(8000), HLine(0), Ln(0, 0, 500, 0), VLine(0),
       HLine(12000), Ln(11000, 3000, 1000, 3000), VLine(12000), HLine(3000),
       Ln(0, 0, 5000, 5000), HLine(9000), VLine(4000), HLine(6450) >>

RECURSIVE PickAscending(_, _)
PickAscending(idx, k) ==
    IF k > Len(GridPool) THEN <<>>
    ELSE (IF k \in idx THEN <<GridPool[k]>> ELSE <<>>) \o PickAscending(idx, k + 1)

Reverse(s) == [i \in 1 .. Len(s) |-> s[Len(s) + 1 - i]]

PoolInputs ==
    LET chosen == {idx \in SUBSET (1 .. Len(GridPool)) : Cardinality(idx) <= MaxGridLines}
    IN  {PickAscending(idx, 1) : idx \in chosen}
            \cup {Reverse(PickAscending(idx, 1)) : idx \in chosen}

\* k horizontal axes 3000 apart, the highest first, and two vertical axes
Ladder(k) == [i \in 1 .. k |-> HLine(3000 * (k - i))] \o <<VLine(4000), VLine(0)>>

LadderInputs == {Ladder(k) : k \in 2 .. MaxLadder}

GridInputs == PoolInputs \cup LadderInputs

InitGrid ==
    /\ lines \in GridInputs
    /\ g_pc = "call"
    /\ grid = [status |-> "pending"]
    /\ MergeIdle
    /\ IntersectIdle
    /\ TypeIdle
    /\ FoundationIdle

\* grid = detector.detect(lines)
GridDetect ==
    /\ g_pc = "call"
    /\ grid' = Detect(lines)
    /\ g_pc' = "done"
    /\ UNCHANGED <<lines, mergeVars, intersectVars, typeVars, foundationVars>>

NextGrid == GridDetect

GridSpec == InitGrid /\ [][NextGrid]_vars

---------------------------------------------------------------------------
(* Claims on the grid *)

Detected == g_pc = "done" /\ grid.status = "grid"

\* C1: a detected grid holds exactly one intersection for each (horizontal
\* line, vertical line) pair: the count is H * V and every pair of labels
\* occurs exactly once.
C1_IntersectionPerPair ==
    Detected =>
        LET hs == grid.horizontal_lines
            vs == grid.vertical_lines
            xs == grid.intersections
        IN  /\ Len(xs) = Len(hs) * Len(vs)
            /\ \A i \in DOMAIN hs, j \in DOMAIN vs :
                  Cardinality({k \in DOMAIN xs : /\ xs[k].grid_h = hs[i].label
                                                 /\ xs[k].grid_v = vs[j].label}) = 1

C1_Witness ==
    /\ Detected
    /\ Len(grid.horizontal_lines) = 5
    /\ Len(grid.vertical_lines) = 4
    /\ Len(grid.intersections) = 20

\* the 0-based place of a label in A, B, ..., Z, AA, AB, ... and in 1, 2, 3, ...
LetterIndex(label) ==
    IF Len(label) = 1 THEN label[1] - OrdA
    ELSE (label[1] - OrdA + 1) * 26 + (label[2] - OrdA)

RECURSIVE DecimalValue(_)
DecimalValue(label) ==
    IF Len(label) = 0 THEN 0
    ELSE DecimalValue(SubSeq(label, 1, Len(label) - 1)) * 10 + (label[Len(label)] - Ord0)

IsLetters(label) ==
    Len(label) \in {1, 2} /\ \A k \in DOMAIN label : label[k] \in OrdA .. OrdA + 25

IsDecimal(label) ==
    Len(label) >= 1 /\ label[1] # Ord0 /\ \A k \in DOMAIN label : label[k] \in Ord0 .. Ord0 + 9

AxisOrderedAndLabelled(gls, is_vertical) ==
    /\ \A i \in DOMAIN gls, j \in DOMAIN gls :
          i < j => RLe(Position(gls[i].line, is_vertical), Position(gls[j].line, is_vertical))
    /\ \A i \in DOMAIN gls :
          IF is_vertical
          THEN IsDecimal(gls[i].label) /\ DecimalValue(gls[i].label) = i
          ELSE IsLetters(gls[i].label) /\ LetterIndex(gls[i].label) = i - 1
    /\ \A i \in DOMAIN gls, j \in DOMAIN gls : i # j => gls[i].label # gls[j].label

\* C2: the horizontal lines of a detected grid are listed by ascending
\* midpoint Y and carry A, B, ..., Z, AA, AB, ... by list position, the
\* vertical lines by ascending midpoint X and carry 1, 2, 3, ...; no label
\* is used twice on an axis.
C2_OrderedLabels ==
    Detected =>
        /\ AxisOrderedAndLabelled(grid.horizontal_lines, FALSE)
        /\ AxisOrderedAndLabelled(grid.vertical_lines, TRUE)

\* a grid of more than 26 horizontal lines, given highest first
C2_Witness ==
    /\ Detected
    /\ Len(grid.horizontal_lines) > 27
    /\ lines[1].start.y > lines[2].start.y
    /\ grid.horizontal_lines[28].label = <<OrdA, OrdA + 1>>

AxisParallel(l, is_vertical) ==
    IF is_vertical THEN Dx(l) = 0 /\ Dy(l) # 0 ELSE Dy(l) = 0 /\ Dx(l) # 0

AxisCoordinates(ls, is_vertical) ==
    {IF is_vertical THEN ls[i].start.x ELSE ls[i].start.y :
        i \in {k \in DOMAIN ls : AxisParallel(ls[k], is_vertical)}}

AxisCount(ls, is_vertical) ==
    Cardinality({k \in DOMAIN ls : AxisParallel(ls[k], is_vertical)})

SetMin(S) == CHOOSE m \in S : \A e \in S : m <= e

\* the lines of one axis lie at n >= 2 distinct places, step apart
UniformAxis(ls, is_vertical, step) ==
    LET P == AxisCoordinates(ls, is_vertical)
        n == AxisCount(ls, is_vertical)
    IN  /\ n >= 2
        /\ Cardinality(P) = n
        /\ step > 0
        /\ P = {SetMin(P) + k * step : k \in 0 .. n - 1}

UniformInput(ls, s_h, s_v) ==
    /\ \A i \in DOMAIN ls :
          /\ AxisParallel(ls[i], FALSE) \/ AxisParallel(ls[i], TRUE)
          /\ LengthSq(ls[i]) >= MinLineLength * MinLineLength
    /\ UniformAxis(ls, FALSE, s_h)
    /\ UniformAxis(ls, TRUE, s_v)
    /\ 4 <= Len(ls) /\ Len(ls) <= 20

GapChoices == {450, 3000, 3450, 4000, 6000, 8000, 9000, 12000}

\* C9: an input of H >= 2 horizontal lines with one common gap s_h and
\* V >= 2 vertical lines with one common gap s_v (4 <= H + V <= 20, all at
\* least min_line_length long) gives a regular grid with those average
\* spacings, every line confidence 1 and overall confidence >= 0.9.
C9_UniformGridIsRegular ==
    \A s_h \in GapChoices, s_v \in GapChoices :
        (g_pc = "done" /\ UniformInput(lines, s_h, s_v)) =>
            /\ grid.status = "grid"
            /\ grid.is_regular
            /\ grid.avg_h_spacing = RInt(s_h)
            /\ grid.avg_v_spacing = RInt(s_v)
            /\ \A i \in DOMAIN grid.horizontal_lines :
                  grid.horizontal_lines[i].confidence = RInt(1)
            /\ \A i \in DOMAIN grid.vertical_lines :
                  grid.vertical_lines[i].confidence = RInt(1)
            /\ RLe(Rat(9, 10), grid.confidence)

\* 5 horizontal lines 3000 apart and 4 vertical lines 4000 apart
C9_Witness ==
    /\ g_pc = "done"
    /\ UniformInput(lines, 3000, 4000)
    /\ AxisCount(lines, FALSE) = 5
    /\ AxisCount(lines, TRUE) = 4
    /\ grid.status = "grid"

---------------------------------------------------------------------------
(* core/models.py: Wall; detection/wall_detector.py: merging *)

\* metadata: segment_count = 0 and merged_from = <<>> stand for an absent key
NoMetadata == [segment_count |-> 0, merged_from |-> <<>>, adjusted_at_intersection |-> FALSE]

\* Wall(...): the fields the caller does not pass take the class defaults
\* is_exterior = False, is_structural = False
Wall(centerline, thickness, height, confidence, source_layer, metadata, guid) ==
    [centerline |-> centerline, thickness |-> thickness, height |-> height,
     is_exterior |-> FALSE, is_structural |-> FALSE, confidence |-> confidence,
     source_layer |-> source_layer, metadata |-> metadata, guid |-> guid]

PointTolerance == 10

CollinearTolerance == 50

\* tan(angle_tolerance) = tan(0.017) = 0.0170 as MergeAngleTanNum / MergeAngleTanDen
MergeAngleTanNum == 17

MergeAngleTanDen == 1000

PointsCloseExact(p1, p2, tolerance) == p1 = p2

\* _points_close
PointsClose(p1, p2, tolerance) == DistSq(p1, p2) < tolerance * tolerance

\* abs(angle) of a centerline as a direction: (dx, |dy|); atan2(0, 0) = 0 is
\* the direction (1, 0)
AbsDirection(l) ==
    IF Dx(l) = 0 /\ Dy(l) = 0 THEN [x |-> 1, y |-> 0] ELSE [x |-> Dx(l), y |-> Abs(Dy(l))]

\* _angles_close on the angles of two centerlines: both angles go through
\* abs() and % pi, the difference is folded into [0, pi/2], and that is below
\* the tolerance when |cross| < tan(tolerance) * |dot| of the two directions
AnglesClose(l1, l2) ==
    LET a == AbsDirection(l1)
        b == AbsDirection(l2)
        cross == a.x * b.y - a.y * b.x
        dot == a.x * b.x + a.y * b.y
    IN  Abs(cross) * MergeAngleTanDen < MergeAngleTanNum * Abs(dot)

\* _points_collinear: the distance of p2 from the line p1-p3 is below the
\* tolerance.  The first conjunct follows from the second; it keeps the
\* squares small.
PointsCollinear(p1, p2, p3, tolerance) ==
    LET dx == p3.x - p1.x
        dy == p3.y - p1.y
        lensq == dx * dx + dy * dy
        num == Abs(dy * p2.x - dx * p2.y + p3.x * p1.y - p3.y * p1.x)
        q == num \div tolerance
    IN  \/ lensq = 0
        \/ /\ q * q <= lensq
           /\ num * num < tolerance * tolerance * lensq

\* _can_merge_walls: the connection type, "" when the walls cannot merge
CanMergeWalls(w1, w2) ==
    LET w1_start == w1.centerline.start
        w1_end == w1.centerline.end
        w2_start == w2.centerline.start
        w2_end == w2.centerline.end
    IN  IF Abs(w1.thickness - w2.thickness) > 1 \/ Abs(w1.height - w2.height) > 1 THEN ""
        ELSE IF ~AnglesClose(w1.centerline, w2.centerline) THEN ""
        ELSE IF /\ PointsClose(w1_end, w2_start, PointTolerance)
                /\ PointsCollinear(w1_start, w1_end, w2_end, CollinearTolerance)
             THEN "end_to_start"
        ELSE IF /\ PointsClose(w1_start, w2_end, PointTolerance)
                /\ PointsCollinear(w1_end, w1_start, w2_start, CollinearTolerance)
             THEN "start_to_end"
        ELSE IF /\ PointsClose(w1_end, w2_end, PointTolerance)
                /\ PointsCollinear(w1_start, w1_end, w2_start, CollinearTolerance)
             THEN "end_to_end"
        ELSE IF /\ PointsClose(w1_start, w2_start, PointTolerance)
                /\ PointsCollinear(w1_end, w1_start, w2_end, CollinearTolerance)
             THEN "start_to_start"
        ELSE ""

MergedCenterlineUnreversed(w1, w2, connection_type) ==
    IF connection_type \in {"end_to_start", "end_to_end"}
    THEN [start |-> w1.centerline.start, end |-> w2.centerline.end]
    ELSE [start |-> w2.centerline.start, end |-> w1.centerline.end]

\* the centerline of the merged wall (_merge_two_walls, lines 125-149)
MergedCenterline(w1, w2, connection_type) ==
    IF connection_type = "end_to_start"
    THEN [start |-> w1.centerline.start, end |-> w2.centerline.end]
    ELSE IF connection_type = "start_to_end"
    THEN [start |-> w2.centerline.start, end |-> w1.centerline.end]
    ELSE IF connection_type = "end_to_end"
    THEN [start |-> w1.centerline.start, end |-> w2.centerline.start]
    ELSE [start |-> w1.centerline.end, end |-> w2.centerline.end]

\* the stored count alone, an absent key counting as 0
GetSegmentCountStored(w) == w.metadata.segment_count

\* metadata.get("segment_count", 1)
GetSegmentCount(w) == IF w.metadata.segment_count = 0 THEN 1 ELSE w.metadata.segment_count

\* _merge_two_walls.  The new wall gets a fresh guid (uuid4), modelled as the
\* guids of its parents put together.
MergeTwoWalls(w1, w2, connection_type) ==
    Wall(MergedCenterline(w1, w2, connection_type),
         w1.thickness,
         w1.height,
         RDiv(RAdd(w1.confidence, w2.confidence), RInt(2)),
         w1.source_layer,
         [w1.metadata EXCEPT !.merged_from = <<w1.guid, w2.guid>>,
                             !.segment_count = GetSegmentCount(w1) + GetSegmentCount(w2)],
         w1.guid \o w2.guid)

\* pairs records, for each merge of a pass, the indices i and j of the parents
\* in the scanned list, the connection type, and the index of the merged wall
\* in new_walls

\* the first j > i that w1 = ws[i] can merge with, merged already or not
RECURSIVE FindMergeAny(_, _, _, _)
FindMergeAny(ws, i, j, merged_indices) ==
    IF j > Len(ws) THEN 0
    ELSE IF CanMergeWalls(ws[i], ws[j]) # "" THEN j
    ELSE FindMergeAny(ws, i, j + 1, merged_indices)

\* the first j > i, not yet merged, that w1 = ws[i] can merge with; 0 if none
RECURSIVE FindMerge(_, _, _, _)
FindMerge(ws, i, j, merged_indices) ==
    IF j > Len(ws) THEN 0
    ELSE IF j \notin merged_indices /\ CanMergeWalls(ws[i], ws[j]) # "" THEN j
    ELSE FindMerge(ws, i, j + 1, merged_indices)

\* one pass of the while loop (lines 193-227) from index i on
RECURSIVE PassFrom(_, _, _, _, _)
PassFrom(ws, i, merged_indices, new_walls, pairs) ==
    IF i > Len(ws) THEN [new_walls |-> new_walls, pairs |-> pairs]
    ELSE IF i \in merged_indices THEN PassFrom(ws, i + 1, merged_indices, new_walls, pairs)
    ELSE LET j == FindMerge(ws, i, i + 1, merged_indices)
         IN  IF j # 0
             THEN PassFrom(ws, i + 1, merged_indices \cup {i, j},
                           Append(new_walls,
                                  MergeTwoWalls(ws[i], ws[j], CanMergeWalls(ws[i], ws[j]))),
                           Append(pairs, [i |-> i, j |-> j, at |-> Len(new_walls) + 1,
                                          connection_type |-> CanMergeWalls(ws[i], ws[j])]))
             ELSE PassFrom(ws, i + 1, merged_indices \cup {i}, Append(new_walls, ws[i]), pairs)

MergePassOf(ws) == PassFrom(ws, 1, {}, <<>>, <<>>)

PassBreaksEarly(count) == count <= 1

PassBreaksNever(count) == FALSE

\* if merged_count == 0: break
PassBreaks(count) == count = 0

---------------------------------------------------------------------------
(* The merge specification: merge_wall_segments on bounded inputs, then *)
(* once more on its own output *)

\* the largest number of walls in one input
MaxWalls == 3

DefaultMaxIterations == 10

PoolWall(k, sx, sy, ex, ey, thickness, confidence) ==
    Wall(Ln(sx, sy, ex, ey), thickness, 3000, confidence, "A-WALL", NoMetadata, <<k>>)

\* Segments on the line y = 0 that chain within a few units (1-3), the same
\* reversed (4-6), a perpendicular wall (7), a thicker one (8), two walls
\* mirrored about the X axis (9, 10), a segment doubling back over the first
\* (11), a parallel one 5 off (12), an exterior wall 1 thicker (13), a stub
\* shorter than the point tolerance (14); a second exterior structural wall
\* that continues 13 (15).
WallPool ==
    << PoolWall(1, 0, 0, 100, 0, 150, Rat(8, 10)),
       PoolWall(2, 103, 0, 200, 0, 150, Rat(7, 10)),
       PoolWall(3, 196, 0, 300, 0, 150, Rat(8, 10)),
       PoolWall(4, 100, 0, 0, 0, 150, Rat(8, 10)),
       PoolWall(5, 200, 0, 103, 0, 150, Rat(7, 10)),
       PoolWall(6, 300, 0, 196, 0, 150, Rat(8, 10)),
       PoolWall(7, 100, 0, 100, 100, 150, Rat(8, 10)),
       PoolWall(8, 300, 0, 400, 0, 152, Rat(8, 10)),
       PoolWall(9, 0, 0, 40, 30, 150, Rat(8, 10)),
       PoolWall(10, 40, 30, 80, 0, 150, Rat(8, 10)),
       PoolWall(11, 100, 0, 20, 0, 150, Rat(8, 10)),
       PoolWall(12, 103, 5, 200, 5, 150, Rat(8, 10)),
       [PoolWall(13, 300, 0, 400, 0, 151, RInt(1)) EXCEPT !.is_exterior = TRUE,
                                                          !.is_structural = TRUE],
       PoolWall(14, 300, 0, 308, 0, 150, Rat(8, 10)),
       [PoolWall(15, 400, 0, 500, 0, 151, RInt(1)) EXCEPT !.is_exterior = TRUE,
                                                          !.is_structural = TRUE] >>

\* the lists of at most n indices out of 1 .. top
RECURSIVE IndexLists(_, _)
IndexLists(n, top) ==
    IF n = 0 THEN {<<>>}
    ELSE LET shorter == IndexLists(n - 1, top)
         IN  shorter \cup
             {Append(t, k) : t \in {u \in shorter : Len(u) = n - 1}, k \in 1 .. top}

\* those that name no index twice
DistinctIndexLists(n, top) ==
    {t \in IndexLists(n, top) : \A a \in DOMAIN t, b \in DOMAIN t : a # b => t[a] # t[b]}

MergeInputs == {[i \in DOMAIN t |-> WallPool[t[i]]] : t \in DistinctIndexLists(MaxWalls, Len(WallPool))}

InitMerge ==
    /\ GridIdle
    /\ IntersectIdle
    /\ TypeIdle
    /\ FoundationIdle
    /\ walls \in MergeInputs
    /\ max_iterations \in {1, DefaultMaxIterations}
    /\ merged_walls = <<>>
    /\ iteration = 0
    /\ merged_count = 0
    /\ pass_input = <<>>
    /\ pass_output = <<>>
    /\ pass_pairs = <<>>
    /\ m_pc = "call"
    /\ m_exit = "none"
    /\ merging_passes = 0
    /\ call_no = 1
    /\ first_result = [walls |-> <<>>, exit |-> "none", merging_passes |-> 0]

\* lines 184-190: an empty list is returned at once; else the loop starts on
\* a copy of the input
MergeStart ==
    /\ m_pc = "call"
    /\ IF Len(walls) = 0
       THEN m_pc' = "done" /\ m_exit' = "empty"
       ELSE m_pc' = "loop" /\ m_exit' = "none"
    /\ merged_walls' = walls
    /\ iteration' = 0
    /\ merged_count' = 0
    /\ merging_passes' = 0
    /\ pass_input' = <<>>
    /\ pass_output' = <<>>
    /\ pass_pairs' = <<>>
    /\ UNCHANGED <<walls, max_iterations, call_no, first_result, gridVars,
                   intersectVars, typeVars, foundationVars>>

\* lines 192-235: one pass of the while loop
MergePass ==
    /\ m_pc = "loop"
    /\ iteration < max_iterations
    /\ LET pass == MergePassOf(merged_walls)
           count == Len(pass.pairs)
       IN  /\ iteration' = iteration + 1
           /\ merged_count' = count
           /\ pass_input' = merged_walls
           /\ pass_output' = pass.new_walls
           /\ pass_pairs' = pass.pairs
           /\ IF PassBreaks(count)
              THEN /\ m_pc' = "done"
                   /\ m_exit' = "break"
                   /\ UNCHANGED <<merged_walls, merging_passes>>
              ELSE /\ m_pc' = "loop"
                   /\ m_exit' = "none"
                   /\ merged_walls' = pass.new_walls
                   /\ merging_passes' = merging_passes + 1
    /\ UNCHANGED <<walls, max_iterations, call_no, first_result, gridVars,
                   intersectVars, typeVars, foundationVars>>

\* line 192: the loop condition fails once iteration reaches max_iterations
MergeCapReached ==
    /\ m_pc = "loop"
    /\ iteration >= max_iterations
    /\ m_pc' = "done"
    /\ m_exit' = "cap"
    /\ UNCHANGED <<walls, max_iterations, merged_walls, iteration, merged_count, pass_input,
                   pass_output, pass_pairs, merging_passes, call_no, first_result, gridVars,
                   intersectVars, typeVars, foundationVars>>

\* the caller hands the returned list to merge_wall_segments again
MergeAgain ==
    /\ m_pc = "done"
    /\ call_no = 1
    /\ call_no' = 2
    /\ first_result' = [walls |-> merged_walls, exit |-> m_exit,
                        merging_passes |-> merging_passes]
    /\ walls' = merged_walls
    /\ m_pc' = "call"
    /\ UNCHANGED <<max_iterations, merged_walls, iteration, merged_count, pass_input,
                   pass_output, pass_pairs, m_exit, merging_passes, gridVars,
                   intersectVars, typeVars, foundationVars>>

NextMerge == MergeStart \/ MergePass \/ MergeCapReached \/ MergeAgain

MergeSpec == InitMerge /\ [][NextMerge]_vars

---------------------------------------------------------------------------
(* Properties of merge_wall_segments, checked under MergeSpec *)

\* C3: if merge_wall_segments stopped because a pass made zero merges (the
\* break of line 233), calling it again on its output returns the same walls
\* in the same order, and the second call performs no merge.
C3_IdempotentOnFixedPoint ==
    (call_no = 2 /\ m_pc = "done" /\ first_result.exit = "break")
        => /\ merged_walls = first_result.walls
           /\ merged_count = 0
           /\ merging_passes = 0
           /\ m_exit = "break"

\* the second call has returned on the output of a first call that merged
\* walls before it came to the pass without merges
C3_Witness ==
    /\ call_no = 2
    /\ m_pc = "done"
    /\ first_result.exit = "break"
    /\ first_result.merging_passes >= 1
    /\ Len(first_result.walls) >= 2

MinX(w) == Min2(w.centerline.start.x, w.centerline.end.x)

MaxX(w) == Max2(w.centerline.start.x, w.centerline.end.x)

\* three horizontal walls on one line, of one thickness and height, each
\* longer than the largest tolerance, that follow one another along the line:
\* each ends within 5 units of where the next begins
IsChainOfThree(ws) ==
    /\ Len(ws) = 3
    /\ \A i \in 1 .. 3 :
          /\ ws[i].centerline.start.y = ws[1].centerline.start.y
          /\ ws[i].centerline.end.y = ws[1].centerline.start.y
          /\ ws[i].thickness = ws[1].thickness
          /\ ws[i].height = ws[1].height
          /\ LengthSq(ws[i].centerline) > CollinearTolerance * CollinearTolerance
    /\ \E a \in 1 .. 3, b \in 1 .. 3, c \in 1 .. 3 :
          /\ {a, b, c} = 1 .. 3
          /\ Abs(MaxX(ws[a]) - MinX(ws[b])) <= 5
          /\ Abs(MaxX(ws[b]) - MinX(ws[c])) <= 5

\* the two outermost endpoints of a chain
Outermost(ws) ==
    LET y == ws[1].centerline.start.y
    IN  { Pt(SetMin({MinX(ws[i]) : i \in DOMAIN ws}), y),
          Pt(-SetMin({-MaxX(ws[i]) : i \in DOMAIN ws}), y) }

SharedEndpoints(w1, w2, connection_type) ==
    IF connection_type = "end_to_start" THEN <<w1.centerline.end, w2.centerline.start>>
    ELSE IF connection_type = "start_to_end" THEN <<w1.centerline.start, w2.centerline.end>>
    ELSE IF connection_type = "end_to_end" THEN <<w1.centerline.end, w2.centerline.end>>
    ELSE <<w1.centerline.start, w2.centerline.start>>

OuterEndpoints(w1, w2, connection_type) ==
    IF connection_type = "end_to_start" THEN <<w1.centerline.start, w2.centerline.end>>
    ELSE IF connection_type = "start_to_end" THEN <<w2.centerline.start, w1.centerline.end>>
    ELSE IF connection_type = "end_to_end" THEN <<w1.centerline.start, w2.centerline.start>>
    ELSE <<w1.centerline.end, w2.centerline.end>>

\* C5: every wall merged in the last pass runs between the two non-shared
\* endpoints of its parents as fixed by the connection case (end_to_start:
\* w1.start to w2.end; start_to_end: w2.start to w1.end; end_to_end: w1.start
\* to w2.start; start_to_start: w1.end to w2.end), the endpoints the case
\* names as shared are within the point tolerance, and the merged wall's length
\* is the distance between the two outer points.
C5_MergedCenterlineByCase ==
    \A k \in DOMAIN pass_pairs :
        LET p == pass_pairs[k]
            w1 == pass_input[p.i]
            w2 == pass_input[p.j]
            outer == OuterEndpoints(w1, w2, p.connection_type)
            shared == SharedEndpoints(w1, w2, p.connection_type)
            merged == merged_walls[p.at]
        IN  /\ p.connection_type \in {"end_to_start", "start_to_end", "end_to_end",
                                      "start_to_start"}
            /\ merged.centerline.start = outer[1]
            /\ merged.centerline.end = outer[2]
            /\ LengthSq(merged.centerline) = DistSq(outer[1], outer[2])
            /\ DistSq(shared[1], shared[2]) < PointTolerance * PointTolerance

\* the last pass merged a pair in the given connection case
C5_CaseSeen(connection_type) ==
    \E k \in DOMAIN pass_pairs : pass_pairs[k].connection_type = connection_type

\* a pass has merged two walls end to end, the second of them reversed
C5_Witness ==
    /\ C5_CaseSeen("end_to_end")
    /\ pass_input[pass_pairs[1].i].centerline.start # pass_input[pass_pairs[1].j].centerline.end
    /\ merged_walls[pass_pairs[1].at].metadata.segment_count = 2

---------------------------------------------------------------------------
(* Wall intersections (d23d/detection/wall_intersections.py) *)

IntersectionTypeNoCrossing(wall_indices) ==
    IF Len(wall_indices) = 2 THEN "L-corner"
    ELSE IF Len(wall_indices) >= 3 THEN "T-junction"
    ELSE "endpoint"

\* WallIntersection.intersection_type
IntersectionType(wall_indices) ==
    LET count == Len(wall_indices)
    IN  IF count = 2 THEN "L-corner"
        ELSE IF count = 3 THEN "T-junction"
        ELSE IF count >= 4 THEN "X-crossing"
        ELSE "endpoint"

\* WallIntersection(point, wall_indices)
WallIntersection(point, wall_indices) == [point |-> point, wall_indices |-> wall_indices]

\* a Point2D whose coordinates are fractions
RPt(p) == [x |-> RInt(p.x), y |-> RInt(p.y)]

\* _lines_intersect returns None
NoPoint == [x |-> None, y |-> None]

Lcm(a, b) == (a * b) \div Gcd(a, b)

\* p.distance_to(q) < tolerance for points with fractional coordinates: the
\* differences are brought to the common denominator D and the squares
\* compared; the first two conjuncts follow from the third and keep the
\* squares small
RWithin(p, q, tolerance) ==
    LET D == Lcm(Lcm(p.x.d, q.x.d), Lcm(p.y.d, q.y.d))
        X == Abs(p.x.n * (D \div p.x.d) - q.x.n * (D \div q.x.d))
        Y == Abs(p.y.n * (D \div p.y.d) - q.y.n * (D \div q.y.d))
    IN  /\ X < tolerance * D
        /\ Y < tolerance * D
        /\ X * X + Y * Y < tolerance * tolerance * D * D

\* sqrt(dx^2 + dy^2) of a segment parallel to an axis: one of the two terms
\* is 0 and the root is the other.  The walls drawn below are all parallel
\* to an axis.
SegLength(l) == Abs(Dx(l)) + Abs(Dy(l))

EndpointTolerance == 50

IntersectionTolerance == 50

SnapTolerance == 50

\* _lines_intersect
LinesIntersect(l1, l2, tolerance) ==
    LET x1 == l1.start.x
        y1 == l1.start.y
        x2 == l1.end.x
        y2 == l1.end.y
        x3 == l2.start.x
        y3 == l2.start.y
        x4 == l2.end.x
        y4 == l2.end.y
        denom == (x1 - x2) * (y3 - y4) - (y1 - y2) * (x3 - x4)
        t == Rat((x1 - x3) * (y3 - y4) - (y1 - y3) * (x3 - x4), denom)
        u == Rat(-((x1 - x2) * (y1 - y3) - (y1 - y2) * (x1 - x3)), denom)
        tolerance_param == Rat(tolerance, Max2(SegLength(l1), SegLength(l2)))
        lo == RSub(RInt(0), tolerance_param)
        hi == RAdd(RInt(1), tolerance_param)
    IN  IF denom = 0 THEN NoPoint
        ELSE IF RLe(lo, t) /\ RLe(t, hi) /\ RLe(lo, u) /\ RLe(u, hi)
             THEN [x |-> RAdd(RInt(x1), RMul(t, RInt(x2 - x1))),
                   y |-> RAdd(RInt(y1), RMul(t, RInt(y2 - y1)))]
             ELSE NoPoint

\* the divisions without the return for parallel lines before them
DivisorsUnguarded(l1, l2) ==
    {(l1.start.x - l1.end.x) * (l2.start.y - l2.end.y)
         - (l1.start.y - l1.end.y) * (l2.start.x - l2.end.x),
     Max2(SegLength(l1), SegLength(l2))}

\* the numbers one call of _lines_intersect divides by: denom at lines 88 and
\* 89 and the longer of the two lengths at lines 93-96, none when the call
\* returns at line 86.  Dividing by 0 raises ZeroDivisionError.
Divisors(l1, l2) ==
    LET denom == (l1.start.x - l1.end.x) * (l2.start.y - l2.end.y)
                     - (l1.start.y - l1.end.y) * (l2.start.x - l2.end.x)
    IN  IF denom = 0 THEN {}
        ELSE {denom, Max2(SegLength(l1), SegLength(l2))}

\* the ascending list of a set of integers: sorted(list(s))
RECURSIVE Sorted(_)
Sorted(S) == IF S = {} THEN <<>> ELSE <<SetMin(S)>> \o Sorted(S \ {SetMin(S)})

\* lines 130-133: the two endpoints of every wall, in list order.  Walls are
\* counted from 1 here, where the code counts them from 0.
EndpointCandidates(ws) ==
    [k \in 1 .. 2 * Len(ws) |->
        LET i == (k + 1) \div 2
        IN  IF k % 2 = 1
            THEN [point |-> RPt(ws[i].centerline.start), wall |-> i, kind |-> "start"]
            ELSE [point |-> RPt(ws[i].centerline.end), wall |-> i, kind |-> "end"]]

\* lines 135-153: the crossing of each pair i < j is added, once for each of
\* the two walls, unless it is within the endpoint tolerance of a candidate
\* collected so far
RECURSIVE CrossingCandidates(_, _, _, _)
CrossingCandidates(ws, i, j, candidates) ==
    IF i > Len(ws) THEN candidates
    ELSE IF j > Len(ws) THEN CrossingCandidates(ws, i + 1, i + 2, candidates)
    ELSE LET intersection_point ==
                 LinesIntersect(ws[i].centerline, ws[j].centerline, IntersectionTolerance)
             is_endpoint ==
                 \E c \in Range(candidates) :
                     RWithin(c.point, intersection_point, EndpointTolerance)
         IN  IF intersection_point # NoPoint /\ ~is_endpoint
             THEN CrossingCandidates(ws, i, j + 1,
                      candidates \o
                      << [point |-> intersection_point, wall |-> i, kind |-> "crossing"],
                         [point |-> intersection_point, wall |-> j, kind |-> "crossing"] >>)
             ELSE CrossingCandidates(ws, i, j + 1, candidates)

\* lines 159-184: the candidates are taken in order; one not yet processed
\* gathers every unprocessed candidate within the tolerance of it, and the
\* gathering is an intersection when it holds more than one wall
RECURSIVE GroupFrom(_, _, _, _, _)
GroupFrom(candidates, idx, processed, result, endpoint_tolerance) ==
    IF idx > Len(candidates) THEN result
    ELSE IF idx \in processed
    THEN GroupFrom(candidates, idx + 1, processed, result, endpoint_tolerance)
    ELSE LET nearby_indices ==
                 {idx} \cup
                 {o \in DOMAIN candidates :
                     /\ o # idx
                     /\ o \notin processed
                     /\ RWithin(candidates[idx].point, candidates[o].point,
                                endpoint_tolerance)}
             nearby_wall_indices == {candidates[o].wall : o \in nearby_indices}
             order == Sorted(nearby_indices)
             avg_x == RDiv(RSum([k \in DOMAIN order |-> candidates[order[k]].point.x]),
                           RInt(Len(order)))
             avg_y == RDiv(RSum([k \in DOMAIN order |-> candidates[order[k]].point.y]),
                           RInt(Len(order)))
         IN  GroupFrom(candidates, idx + 1, processed \cup nearby_indices,
                       IF Cardinality(nearby_wall_indices) > 1
                       THEN Append(result,
                                   WallIntersection([x |-> avg_x, y |-> avg_y],
                                                    Sorted(nearby_wall_indices)))
                       ELSE result,
                       endpoint_tolerance)

\* detect_wall_intersections with the default tolerances
DetectWallIntersections(ws) ==
    IF Len(ws) < 2 THEN <<>>
    ELSE GroupFrom(CrossingCandidates(ws, 1, 2, EndpointCandidates(ws)), 1, {}, <<>>,
                   EndpointTolerance)

\* An endpoint of an adjusted wall: the point base moved by `extension` along
\* the unit vector from away_from to base (the square root of lines 260 and
\* 273 stays symbolic).  extension = 0 is the point base itself.
APoint(base, away_from, extension) ==
    [base |-> base, away_from |-> away_from, extension |-> extension]

Plain(p) == APoint(p, p, RInt(0))

SnappedByOwnThickness(point, far, wall_indices, i, ws) ==
    IF Len(wall_indices) = 2 /\ point # RPt(far)
    THEN APoint(point, RPt(far), Rat(ws[i].thickness, 2))
    ELSE Plain(point)

\* lines 247-280: the endpoint snapped to `point` is extended away from the
\* wall's other original endpoint `far` at an intersection of two walls,
\* unless it lies on `far` (length 0)
Snapped(point, far, wall_indices, i, ws) ==
    LET other_wall_idx == IF wall_indices[1] = i THEN wall_indices[2] ELSE wall_indices[1]
        extension == Rat(ws[other_wall_idx].thickness, 2)
    IN  IF Len(wall_indices) = 2 /\ point # RPt(far)
        THEN APoint(point, RPt(far), extension)
        ELSE Plain(point)

\* lines 230-280 for wall i: the intersections are gone through in order
RECURSIVE AdjustEnds(_, _, _, _, _)
AdjustEnds(ws, i, ints, k, acc) ==
    IF k > Len(ints) THEN acc
    ELSE IF i \notin Range(ints[k].wall_indices) THEN AdjustEnds(ws, i, ints, k + 1, acc)
    ELSE LET wall == ws[i]
             point == ints[k].point
             start_at_intersection ==
                 RWithin(RPt(wall.centerline.start), point, SnapTolerance)
             end_at_intersection ==
                 RWithin(RPt(wall.centerline.end), point, SnapTolerance)
         IN  AdjustEnds(ws, i, ints, k + 1,
                 [new_start |-> IF start_at_intersection
                                THEN Snapped(point, wall.centerline.end,
                                             ints[k].wall_indices, i, ws)
                                ELSE acc.new_start,
                  new_end |-> IF end_at_intersection
                              THEN Snapped(point, wall.centerline.start,
                                           ints[k].wall_indices, i, ws)
                              ELSE acc.new_end,
                  adjusted |-> acc.adjusted \/ start_at_intersection
                                            \/ end_at_intersection])

\* every wall of an input with intersections rebuilt, adjusted or not
AdjustWallRebuilt(ws, i, ints) ==
    LET wall == ws[i]
        ends == AdjustEnds(ws, i, ints, 1,
                           [new_start |-> Plain(RPt(wall.centerline.start)),
                            new_end |-> Plain(RPt(wall.centerline.end)),
                            adjusted |-> FALSE])
    IN  Wall([start |-> ends.new_start, end |-> ends.new_end],
             wall.thickness, wall.height, wall.confidence, wall.source_layer,
             [wall.metadata EXCEPT !.adjusted_at_intersection = TRUE],
             Append(wall.guid, 0))

\* lines 224-305 for wall i: an adjusted wall is a new Wall; a wall that is
\* not adjusted is kept
AdjustWall(ws, i, ints) ==
    LET wall == ws[i]
        ends == AdjustEnds(ws, i, ints, 1,
                           [new_start |-> Plain(RPt(wall.centerline.start)),
                            new_end |-> Plain(RPt(wall.centerline.end)),
                            adjusted |-> FALSE])
    IN  IF ends.adjusted
        THEN Wall([start |-> ends.new_start, end |-> ends.new_end],
                  wall.thickness, wall.height, wall.confidence, wall.source_layer,
                  [wall.metadata EXCEPT !.adjusted_at_intersection = TRUE],
                  Append(wall.guid, 0))
        ELSE [wall EXCEPT !.centerline = [start |-> ends.new_start, end |-> ends.new_end]]

\* adjust_walls_at_intersections with the defaults (snap_tolerance 50,
\* extend_for_thickness True)
AdjustWallsAtIntersections(ws, ints) == [i \in DOMAIN ws |-> AdjustWall(ws, i, ints)]

---------------------------------------------------------------------------
(* The intersection specification: detect_wall_intersections on bounded *)
(* inputs, then adjust_walls_at_intersections on what it returned *)

\* the largest number of walls in one input
MaxIWalls == 3

IWall(k, sx, sy, ex, ey, thickness) ==
    Wall(Ln(sx, sy, ex, ey), thickness, 3000, Rat(8, 10), "A-WALL", NoMetadata, <<k>>)

\* A long horizontal wall (1) with walls that meet it: at a shared corner
\* (2), near its other end (3), in a T on its mid-span (4), crossing its
\* mid-span (5); walls a little longer than the tolerance next to a corner
\* (6, 7, 8); a wall continuing 1 to the left (9); a wall of length 80 whose
\* far endpoint is 50 from the corner (10); 1 reversed (11); a parallel wall
\* 30 off (12); a wall of length 0 (13); a wall across the tops of 2 and 4 (14).
IWallPool ==
    << IWall(1, 0, 0, 1000, 0, 200),
       IWall(2, 0, 0, 0, 800, 150),
       IWall(3, 1010, -20, 1010, -600, 100),
       IWall(4, 500, 0, 500, 800, 150),
       IWall(5, 300, -400, 300, 400, 230),
       IWall(6, -28, -43, -28, 8, 100),
       IWall(7, 0, 0, 51, 0, 100),
       IWall(8, 2, -49, 2, 2, 120),
       IWall(9, -1000, 0, 0, 0, 200),
       IWall(10, 0, 30, 0, -50, 151),
       IWall(11, 1000, 0, 0, 0, 180),
       IWall(12, 0, 30, 1000, 30, 200),
       IWall(13, 1000, 0, 1000, 0, 150),
       IWall(14, 0, 800, 1000, 800, 200) >>

IntersectInputs ==
    {[i \in DOMAIN t |-> IWallPool[t[i]]] : t \in DistinctIndexLists(MaxIWalls, Len(IWallPool))}

InitIntersect ==
    /\ GridIdle
    /\ MergeIdle
    /\ TypeIdle
    /\ FoundationIdle
    /\ i_walls \in IntersectInputs
    /\ intersections = <<>>
    /\ adjusted_walls = <<>>
    /\ i_pc = "detect"

\* intersections = detect_wall_intersections(walls)
DetectIntersections ==
    /\ i_pc = "detect"
    /\ intersections' = DetectWallIntersections(i_walls)
    /\ i_pc' = "adjust"
    /\ UNCHANGED <<i_walls, adjusted_walls, gridVars, mergeVars, typeVars, foundationVars>>

\* walls = adjust_walls_at_intersections(walls, intersections)
AdjustWalls ==
    /\ i_pc = "adjust"
    /\ adjusted_walls' = AdjustWallsAtIntersections(i_walls, intersections)
    /\ i_pc' = "done"
    /\ UNCHANGED <<i_walls, intersections, gridVars, mergeVars, typeVars, foundationVars>>

NextIntersect == DetectIntersections \/ AdjustWalls

IntersectSpec == InitIntersect /\ [][NextIntersect]_vars

---------------------------------------------------------------------------
(* The type specification: a WallIntersection built on a bounded list of *)
(* wall indices, and its intersection_type read *)

\* the largest number of wall indices of one WallIntersection
MaxIndices == 5

InitType ==
    /\ GridIdle
    /\ MergeIdle
    /\ IntersectIdle
    /\ FoundationIdle
    /\ wi \in {WallIntersection(RPt(Pt(0, 0)), t) : t \in IndexLists(MaxIndices, 3)}
    /\ wi_type = "unread"

ReadIntersectionType ==
    /\ wi_type = "unread"
    /\ wi_type' = IntersectionType(wi.wall_indices)
    /\ UNCHANGED <<wi, gridVars, mergeVars, intersectVars, foundationVars>>

NextType == ReadIntersectionType

TypeSpec == InitType /\ [][NextType]_vars

---------------------------------------------------------------------------
(* Properties of WallIntersection.intersection_type, checked under TypeSpec *)

\* C6: intersection_type depends only on the number of wall indices: exactly
\* 2 gives "L-corner", exactly 3 "T-junction", 4 or more "X-crossing", fewer
\* than 2 "endpoint".
C6_TypeByCount ==
    wi_type \notin {"idle", "unread"}
        => LET count == Len(wi.wall_indices)
           IN  /\ count = 2 => wi_type = "L-corner"
               /\ count = 3 => wi_type = "T-junction"
               /\ count >= 4 => wi_type = "X-crossing"
               /\ count < 2 => wi_type = "endpoint"

\* the type of an intersection of more than four walls has been read
C6_Witness == wi_type = "X-crossing" /\ Len(wi.wall_indices) > 4

---------------------------------------------------------------------------
(* Properties of the intersection functions, checked under IntersectSpec *)

EndPt(w, e) == IF e = "start" THEN w.centerline.start ELSE w.centerline.end

FarEnd(e) == IF e = "start" THEN "end" ELSE "start"

Ends == {"start", "end"}

\* one wall runs along X and the other along Y
Perpendicular(w1, w2) ==
    \/ Dy(w1.centerline) = 0 /\ Dx(w1.centerline) # 0
          /\ Dx(w2.centerline) = 0 /\ Dy(w2.centerline) # 0
    \/ Dx(w1.centerline) = 0 /\ Dy(w1.centerline) # 0
          /\ Dy(w2.centerline) = 0 /\ Dx(w2.centerline) # 0

\* the pairs (endpoint of w1, endpoint of w2) that are nearest to each other
NearestEnds(w1, w2) ==
    {pr \in Ends \X Ends :
        \A other \in Ends \X Ends :
            DistSq(EndPt(w1, pr[1]), EndPt(w2, pr[2]))
                <= DistSq(EndPt(w1, other[1]), EndPt(w2, other[2]))}

\* two perpendicular walls whose nearest endpoints are within 30 units
CornerOfTwo(ws) ==
    /\ Len(ws) = 2
    /\ Perpendicular(ws[1], ws[2])
    /\ \E pr \in NearestEnds(ws[1], ws[2]) :
          DistSq(EndPt(ws[1], pr[1]), EndPt(ws[2], pr[2])) <= 30 * 30

\* what C7 promises of such a pair: one intersection, an L-corner of both
\* walls; the near endpoint of each wall lies at the intersection point,
\* extended away from the wall's far endpoint by half the other's thickness
CornerOutcome ==
    /\ Len(intersections) = 1
    /\ IntersectionType(intersections[1].wall_indices) = "L-corner"
    /\ intersections[1].wall_indices = <<1, 2>>
    /\ \A pr \in NearestEnds(i_walls[1], i_walls[2]) :
          /\ adjusted_walls[1].centerline[pr[1]]
                 = APoint(intersections[1].point,
                          RPt(EndPt(i_walls[1], FarEnd(pr[1]))),
                          Rat(i_walls[2].thickness, 2))
          /\ adjusted_walls[2].centerline[pr[2]]
                 = APoint(intersections[1].point,
                          RPt(EndPt(i_walls[2], FarEnd(pr[2]))),
                          Rat(i_walls[1].thickness, 2))

OnMidSpan(p, w) ==
    LET s == w.centerline.start
        e == w.centerline.end
    IN  /\ s # e
        /\ (p.x - s.x) * (e.y - s.y) = (p.y - s.y) * (e.x - s.x)
        /\ (p.x - s.x) * (e.x - s.x) + (p.y - s.y) * (e.y - s.y) >= 0
        /\ (p.x - e.x) * (s.x - e.x) + (p.y - e.y) * (s.y - e.y) >= 0
        /\ DistSq(p, s) > EndpointTolerance * EndpointTolerance
        /\ DistSq(p, e) > EndpointTolerance * EndpointTolerance

\* wall i ends on the mid-span of wall j, at the point EndPt(ws[i], e), and
\* the two are not parallel
MeetInT(ws, i, e, j) ==
    /\ i # j
    /\ Dx(ws[i].centerline) * Dy(ws[j].centerline)
           # Dy(ws[i].centerline) * Dx(ws[j].centerline)
    /\ OnMidSpan(EndPt(ws[i], e), ws[j])

\* C8: when an endpoint of one wall lies on the mid-span of another wall's
\* centerline, detect_wall_intersections reports an intersection at that
\* point (within the endpoint tolerance of it) whose wall_indices contain
\* both walls.
C8_TJunctionReported ==
    i_pc # "detect"
        => \A i \in DOMAIN i_walls, j \in DOMAIN i_walls, e \in Ends :
               MeetInT(i_walls, i, e, j)
                   => \E k \in DOMAIN intersections :
                          /\ {i, j} \subseteq Range(intersections[k].wall_indices)
                          /\ RWithin(intersections[k].point, RPt(EndPt(i_walls[i], e)),
                                     EndpointTolerance)

---------------------------------------------------------------------------
(* Foundations (d23d/detection/foundation_detector.py) *)

\* the members of the enumeration ElementType
ElementTypeMembers ==
    {"GRID", "GRID_LINE", "GRID_INTERSECTION", "WALL", "COLUMN", "SLAB", "DOOR", "WINDOW",
     "BEAM"}

\* pile_size = 300.0
PileSize == 300

\* tolerance = 10.0
MatchTolerance == 10

DefaultFoundationDepth == 30150

\* lines 122-130: a line is horizontal if dx > dy, else vertical; each list
\* keeps the order of `lines`
HorizontalLines(ls) == SelectSeq(ls, LAMBDA l : Abs(Dx(l)) > Abs(Dy(l)))

VerticalLines(ls) == SelectSeq(ls, LAMBDA l : ~(Abs(Dx(l)) > Abs(Dy(l))))

XMin(l) == Min2(l.start.x, l.end.x)

XMax(l) == Max2(l.start.x, l.end.x)

YMin(l) == Min2(l.start.y, l.end.y)

YMax(l) == Max2(l.start.y, l.end.y)

\* (start.x + end.x) / 2 and (start.y + end.y) / 2
XMid(l) == Rat(l.start.x + l.end.x, 2)

YMid(l) == Rat(l.start.y + l.end.y, 2)

\* abs(a - b) < tolerance
RNear(a, b, tolerance) == RLt(RAbs(RSub(a, b)), RInt(tolerance))

\* lines 183-196: the first other unused horizontal line that is aligned with
\* line1 = hl[i] and about pile_size away from it; 0 if there is none
RECURSIVE FindOpposite(_, _, _, _)
FindOpposite(hl, i, j, used_lines) ==
    IF j > Len(hl) THEN 0
    ELSE IF /\ j \notin used_lines
            /\ j # i
            /\ Abs(XMin(hl[i]) - XMin(hl[j])) < MatchTolerance
            /\ Abs(XMax(hl[i]) - XMax(hl[j])) < MatchTolerance
            /\ RNear(RAbs(RSub(YMid(hl[j]), YMid(hl[i]))), RInt(PileSize), MatchTolerance)
         THEN j
         ELSE FindOpposite(hl, i, j + 1, used_lines)

\* lines 205-222: the first two unused vertical lines that span the two
\* horizontal lines at either end of line1
RECURSIVE VerticalFound(_, _, _, _, _, _)
VerticalFound(vl, k, used_lines, line1, line2, found) ==
    IF k > Len(vl) \/ Len(found) >= 2 THEN found
    ELSE LET y_min_rect == RMin(YMid(line1), YMid(line2))
             y_max_rect == RMax(YMid(line1), YMid(line2))
             x3 == XMid(vl[k])
         IN  IF /\ k \notin used_lines
                /\ RNear(RInt(YMin(vl[k])), y_min_rect, MatchTolerance)
                /\ RNear(RInt(YMax(vl[k])), y_max_rect, MatchTolerance)
                /\ \/ RNear(x3, RInt(XMin(line1)), MatchTolerance)
                   \/ RNear(x3, RInt(XMax(line1)), MatchTolerance)
             THEN VerticalFound(vl, k + 1, used_lines, line1, line2, Append(found, k))
             ELSE VerticalFound(vl, k + 1, used_lines, line1, line2, found)

\* Foundation(...), lines 229-237
Foundation(center, source_layer) ==
    [element_type |-> "FOUNDATION", center |-> center, width |-> PileSize,
     depth |-> PileSize, foundation_depth |-> DefaultFoundationDepth,
     confidence |-> Rat(90, 100), source_layer |-> source_layer,
     predefined_type |-> "BASESLAB"]

MarkUsedNothing(used_lines, i, j2, vertical_found) == used_lines

\* lines 240-243: used_lines.add of the four positions
MarkUsed(used_lines, i, j2, vertical_found) ==
    used_lines \cup {i, j2, vertical_found[1], vertical_found[2]}

\* lines 170-244: the loop over the horizontal lines.  used_lines is one set
\* of positions for both lists: i and j2 are positions in horizontal_lines,
\* vertical_found holds positions in vertical_lines.  Positions count from 1
\* here, where the code counts them from 0.  sides keeps, for each Foundation
\* appended, the positions of the lines it was built from.
RECURSIVE MatchFrom(_, _, _, _, _, _, _)
MatchFrom(hl, vl, i, used_lines, foundations, sides, source_layer) ==
    IF i > Len(hl)
    THEN [foundations |-> foundations, used_lines |-> used_lines, sides |-> sides]
    ELSE IF i \in used_lines
    THEN MatchFrom(hl, vl, i + 1, used_lines, foundations, sides, source_layer)
    ELSE LET j2 == FindOpposite(hl, i, 1, used_lines)
             vertical_found ==
                 VerticalFound(vl, 1, used_lines, hl[i], hl[j2], <<>>)
         IN  IF j2 # 0 /\ Len(vertical_found) >= 2
             THEN MatchFrom(hl, vl, i + 1,
                      MarkUsed(used_lines, i, j2, vertical_found),
                      Append(foundations,
                             Foundation(
                                 [x |-> Rat(XMin(hl[i]) + XMax(hl[i]), 2),
                                  y |-> RDiv(RAdd(YMid(hl[i]), YMid(hl[j2])), RInt(2))],
                                 source_layer)),
                      Append(sides, [i |-> i, j2 |-> j2,
                                     vertical_found |-> vertical_found]),
                      source_layer)
             ELSE MatchFrom(hl, vl, i + 1, used_lines, foundations, sides, source_layer)

\* the body of group_lines_into_foundations (lines 118-248); the clusters and
\* grid positions of lines 135-163 are only logged
MatchRectangles(ls) ==
    IF Len(ls) = 0 THEN [foundations |-> <<>>, used_lines |-> {}, sides |-> <<>>]
    ELSE MatchFrom(HorizontalLines(ls), VerticalLines(ls), 1, {}, <<>>, <<>>, ls[1].layer)

\* The class body of Foundation (line 21) reads ElementType.FOUNDATION when
\* the module foundation_detector is loaded, and reading a name the
\* enumeration does not have raises AttributeError: then nothing of the
\* module can be called.
GroupLinesIntoFoundations(ls) ==
    IF "FOUNDATION" \in ElementTypeMembers
    THEN [status |-> "returned"] @@ MatchRectangles(ls)
    ELSE [status |-> "AttributeError", foundations |-> <<>>, used_lines |-> {}]

---------------------------------------------------------------------------
(* The foundation specification: group_lines_into_foundations on bounded *)
(* inputs *)

\* the largest number of lines in one input
MaxFLines == 4

FLine(sx, sy, ex, ey) == [start |-> Pt(sx, sy), end |-> Pt(ex, ey), layer |-> "S-FNDN-HDLN"]

\* The four sides of the 300 x 300 square centred at (5000, 5000) (1-4), its
\* top and right sides reversed (5, 6), a bottom side 5 lower (7), and the
\* left side of a square further right (8).
FLinePool ==
    << FLine(4850, 4850, 5150, 4850),
       FLine(4850, 5150, 5150, 5150),
       FLine(4850, 4850, 4850, 5150),
       FLine(5150, 4850, 5150, 5150),
       FLine(5150, 5150, 4850, 5150),
       FLine(5150, 5150, 5150, 4850),
       FLine(4850, 4845, 5150, 4845),
       FLine(5850, 4850, 5850, 5150) >>

PoolLineInputs ==
    {[i \in DOMAIN t |-> FLinePool[t[i]]] : t \in DistinctIndexLists(MaxFLines, Len(FLinePool))}

\* The sides of two squares 700 apart, the one centred at (5000, 5000) and
\* the one centred at (6000, 5000): their horizontal sides and their
\* vertical sides
TwoSquareHorizontals ==
    << FLinePool[1], FLinePool[2],
       FLine(5850, 4850, 6150, 4850), FLine(5850, 5150, 6150, 5150) >>

TwoSquareVerticals ==
    << FLinePool[3], FLinePool[4], FLinePool[8], FLine(6150, 4850, 6150, 5150) >>

OrdersOfFour == {t \in DistinctIndexLists(4, 4) : Len(t) = 4}

\* the eight lines with the horizontal sides in every order and the vertical
\* sides in every order, the horizontal ones first or the two kinds taking
\* turns
TwoSquareInputs ==
    UNION {LET hs == [i \in 1 .. 4 |-> TwoSquareHorizontals[p[i]]]
               vs == [i \in 1 .. 4 |-> TwoSquareVerticals[q[i]]]
           IN  {hs \o vs,
                [i \in 1 .. 8 |-> IF i % 2 = 1 THEN vs[(i + 1) \div 2] ELSE hs[i \div 2]]}
           : p \in OrdersOfFour, q \in OrdersOfFour}

FoundationInputs == PoolLineInputs \cup TwoSquareInputs

InitFoundation ==
    /\ GridIdle
    /\ MergeIdle
    /\ IntersectIdle
    /\ TypeIdle
    /\ f_lines \in FoundationInputs
    /\ f_pc = "call"
    /\ f_result = [status |-> "none", foundations |-> <<>>, used_lines |-> {}]

\* from d23d.detection.foundation_detector import group_lines_into_foundations;
\* group_lines_into_foundations(lines)
CallGroupLines ==
    /\ f_pc = "call"
    /\ f_result' = GroupLinesIntoFoundations(f_lines)
    /\ f_pc' = "done"
    /\ UNCHANGED <<f_lines, gridVars, mergeVars, intersectVars, typeVars>>

NextFoundation == CallGroupLines

FoundationSpec == InitFoundation /\ [][NextFoundation]_vars

---------------------------------------------------------------------------
(* Properties of group_lines_into_foundations, checked under FoundationSpec *)

\* the four sides, as sets of endpoints, of the 300 x 300 square whose lower
\* left corner is (x0, y0)
SquareSides(x0, y0) ==
    { {Pt(x0, y0), Pt(x0 + PileSize, y0)},
      {Pt(x0, y0 + PileSize), Pt(x0 + PileSize, y0 + PileSize)},
      {Pt(x0, y0), Pt(x0, y0 + PileSize)},
      {Pt(x0 + PileSize, y0), Pt(x0 + PileSize, y0 + PileSize)} }

\* ls are the four sides of one such square, in some order and direction
IsSquareAt(ls, x0, y0) ==
    /\ Len(ls) = 4
    /\ {{ls[i].start, ls[i].end} : i \in DOMAIN ls} = SquareSides(x0, y0)

LowerLeftCorners(ls) == {ls[i].start : i \in DOMAIN ls} \cup {ls[i].end : i \in DOMAIN ls}

\* exactly one Foundation at the centre of the square, with confidence 0.90
\* and a 300 x 300 footprint, and every line's position marked used
OneFoundationAt(r, ls, x0, y0) ==
    /\ Len(r.foundations) = 1
    /\ r.foundations[1].center = [x |-> RInt(x0 + 150), y |-> RInt(y0 + 150)]
    /\ r.foundations[1].confidence = Rat(90, 100)
    /\ r.foundations[1].width = 300
    /\ r.foundations[1].depth = 300
    /\ DOMAIN HorizontalLines(ls) \subseteq r.used_lines
    /\ DOMAIN VerticalLines(ls) \subseteq r.used_lines

\* C10: four lines forming one axis-aligned 300 x 300 square, in any list
\* order, make group_lines_into_foundations return exactly one Foundation,
\* centred at the square's centre, with confidence 0.90 and a 300 x 300
\* footprint, and with all four lines marked used.
C10_SquareGivesOneFoundation ==
    f_pc = "done"
        => \A c \in LowerLeftCorners(f_lines) :
               IsSquareAt(f_lines, c.x, c.y)
                   => /\ f_result.status = "returned"
                      /\ OneFoundationAt(f_result, f_lines, c.x, c.y)

\* the loop of lines 170-244 by itself finds the square once
SquareMatchedOnce ==
    \A c \in LowerLeftCorners(f_lines) :
        IsSquareAt(f_lines, c.x, c.y)
            => OneFoundationAt(MatchRectangles(f_lines), f_lines, c.x, c.y)

---------------------------------------------------------------------------
(* Further properties of GridDetector.detect, checked under GridSpec *)

\* the dominant spacing _detect_grid_lines finds for the lines of one axis
DominantSpacingOf(ls, is_vertical) ==
    FindDominantSpacing(Spacings(SortByPosition(ls, is_vertical), is_vertical))

\* detect has come to step 3: enough lines pass the filter and each axis has
\* at least min_grid_lines of them
ReachesStep3(ls) ==
    /\ Len(FilterByLength(ls)) >= MinGridLines * 2
    /\ Len(ClusterHorizontal(FilterByLength(ls))) >= MinGridLines
    /\ Len(ClusterVertical(FilterByLength(ls))) >= MinGridLines

\* the dominant spacing of one of the two axes is 0
ZeroDominantSpacing(ls) ==
    \/ DominantSpacingOf(ClusterHorizontal(FilterByLength(ls)), FALSE) = RInt(0)
    \/ DominantSpacingOf(ClusterVertical(FilterByLength(ls)), TRUE) = RInt(0)

\* C11: when the dominant spacing of an axis is 0, detect treats this as
\* insufficient data and returns no grid (None); it does not raise.
C11_ZeroSpacingGivesNoGrid ==
    (g_pc = "done" /\ ReachesStep3(lines) /\ ZeroDominantSpacing(lines))
        => grid.status = "None"


\* the positions in ls of the lines that pass the length filter, and of those
\* among them that are classified horizontal or vertical
Passing(ls) == {i \in DOMAIN ls : LengthSq(ls[i]) >= MinLineLength * MinLineLength}

PassingHorizontal(ls) == {i \in Passing(ls) : IsHorizontal(ls[i])}

PassingVertical(ls) == {i \in Passing(ls) : ~IsHorizontal(ls[i]) /\ IsVertical(ls[i])}

\* C12: detect returns None, without raising, whenever fewer than
\* 2 x min_grid_lines lines pass the length filter, or fewer than
\* min_grid_lines of the filtered lines are classified horizontal, or fewer
\* than min_grid_lines are classified vertical.
C12_TooFewLinesGivesNone ==
    (/\ g_pc = "done"
     /\ \/ Cardinality(Passing(lines)) < 2 * MinGridLines
        \/ Cardinality(PassingHorizontal(lines)) < MinGridLines
        \/ Cardinality(PassingVertical(lines)) < MinGridLines)
        => grid.status = "None"

\* detect has returned None on an input with enough lines past the filter
\* and enough horizontal ones, a short line among them, but one vertical only
C12_Witness ==
    /\ g_pc = "done"
    /\ Cardinality(Passing(lines)) >= 2 * MinGridLines
    /\ Cardinality(Passing(lines)) < Len(lines)
    /\ Cardinality(PassingHorizontal(lines)) >= MinGridLines
    /\ Cardinality(PassingVertical(lines)) = 1
    /\ grid.status = "None"

---------------------------------------------------------------------------
(* Further properties of merge_wall_segments, checked under MergeSpec *)

\* a pass has been run in the current call: pass_input and pass_output are
\* the list it scanned and its new_walls
PassRun == m_pc \in {"loop", "done"} /\ iteration >= 1

InputGuids == {pass_input[i].guid : i \in DOMAIN pass_input}

\* wall k of the pass's output is a wall of its input, passed through
PassedThrough(k) == pass_output[k].guid \in InputGuids

\* wall i of the pass's input contributes to wall k of its output: it is that
\* wall, or one of the two the new wall k was merged from
Contributes(i, k) ==
    IF PassedThrough(k)
    THEN pass_output[k].guid = pass_input[i].guid
    ELSE pass_input[i].guid \in Range(pass_output[k].metadata.merged_from)

\* C13: within one pass every wall of the pass's input contributes to
\* exactly one output wall, either passed through unchanged or as one of the
\* two parents of one merged wall; a pass with m merges on n walls yields
\* n - m walls.
C13_PassPartitionsInput ==
    PassRun
        => /\ \A i \in DOMAIN pass_input :
                  Cardinality({k \in DOMAIN pass_output : Contributes(i, k)}) = 1
           /\ \A k \in DOMAIN pass_output :
                  IF PassedThrough(k)
                  THEN /\ pass_output[k] \in Range(pass_input)
                       /\ Cardinality({i \in DOMAIN pass_input : Contributes(i, k)}) = 1
                  ELSE Cardinality({i \in DOMAIN pass_input : Contributes(i, k)}) = 2
           /\ merged_count = Cardinality({k \in DOMAIN pass_output : ~PassedThrough(k)})
           /\ Len(pass_output) = Len(pass_input) - merged_count

\* a pass on three walls has merged two of them and passed the third through,
\* the third being one that could have merged with a wall already taken
C13_Witness ==
    /\ PassRun
    /\ Len(pass_input) = 3
    /\ merged_count = 1
    /\ Len(pass_output) = 2
    /\ \E i \in DOMAIN pass_input, j \in DOMAIN pass_input :
          /\ i # j
          /\ pass_input[i] \in Range(pass_output)
          /\ pass_input[j] \notin Range(pass_output)
          /\ CanMergeWalls(pass_input[i], pass_input[j]) # ""


\* what C14 says of every state of a call: the passes run are at most
\* max_iterations; the loop goes on only after a pass that merged, and such a
\* pass leaves fewer walls than it scanned, which become the working list;
\* the break leaves the scanned list as the result; at the cap the result is
\* what the last pass produced
BoundedPasses ==
    /\ m_pc \in {"loop", "done"} => iteration <= max_iterations
    /\ (m_pc = "loop" /\ iteration >= 1) => merged_count > 0
    /\ (PassRun /\ merged_count > 0)
           => /\ Len(pass_output) < Len(pass_input)
              /\ merged_walls = pass_output
    /\ (m_pc = "done" /\ m_exit = "break")
           => /\ merged_count = 0
              /\ merged_walls = pass_input
    /\ (m_pc = "done" /\ m_exit = "cap")
           => /\ iteration = max_iterations
              /\ merged_count > 0
              /\ merged_walls = pass_output
    /\ m_pc = "done" => m_exit \in {"empty", "break", "cap"}

\* each step of the loop either returns or is one more pass within the cap:
\* the passes still allowed, max_iterations less iteration, are never
\* negative and fall by one with every step that does not return, so the
\* loop cannot run for ever
PassAdvances ==
    m_pc = "loop"
        => /\ max_iterations' = max_iterations
           /\ \/ m_pc' = "done"
              \/ /\ m_pc' = "loop"
                 /\ iteration' = iteration + 1
                 /\ iteration' <= max_iterations

\* C14: merge_wall_segments always terminates: it runs at most
\* max_iterations passes, stops after the first pass that makes no merge,
\* every pass that merges strictly lowers the wall count, and when the cap is
\* hit before a fixed point it returns the walls of the last pass.
C14_Terminates ==
    /\ []BoundedPasses
    /\ [][PassAdvances]_vars

\* a call has returned at the cap, its last pass having merged and left more
\* than one wall
C14_Witness ==
    /\ m_pc = "done"
    /\ m_exit = "cap"
    /\ merged_count > 0
    /\ Len(merged_walls) >= 2


\* merge_wall_segments as one function of its arguments: the loop of lines
\* 192-235 run from the copy of the input to the returned list
RECURSIVE MergeLoop(_, _, _)
MergeLoop(ws, done_passes, cap) ==
    IF done_passes >= cap THEN ws
    ELSE LET pass == MergePassOf(ws)
         IN  IF PassBreaks(Len(pass.pairs)) THEN ws
             ELSE MergeLoop(pass.new_walls, done_passes + 1, cap)

MergeWallSegments(ws, cap) == IF Len(ws) = 0 THEN <<>> ELSE MergeLoop(ws, 0, cap)

\* the same walls in every order
Reorderings(ws) ==
    {[i \in DOMAIN ws |-> ws[f[i]]] :
        f \in {g \in [DOMAIN ws -> DOMAIN ws] : \A a, b \in DOMAIN ws : g[a] = g[b] => a = b}}

\* a centerline span without its direction
SpanOf(w) == {w.centerline.start, w.centerline.end}

Spans(ws) == {SpanOf(ws[i]) : i \in DOMAIN ws}

\* the cap is far from reached: the call ran to a fixed point
RanToFixedPoint ==
    /\ m_pc = "done"
    /\ call_no = 1
    /\ max_iterations = DefaultMaxIterations
    /\ m_exit \in {"empty", "break"}

\* C15: for every permutation of the same input wall list,
\* merge_wall_segments run to a fixed point returns the same number of walls
\* with the same set of centerline spans, up to the direction of each span.
C15_OrderIndependent ==
    RanToFixedPoint
        => \A p \in Reorderings(walls) :
               LET r == MergeWallSegments(p, max_iterations)
               IN  /\ Len(r) = Len(merged_walls)
                   /\ Spans(r) = Spans(merged_walls)


---------------------------------------------------------------------------
(* Further properties of group_lines_into_foundations.  The call itself *)
(* ends in AttributeError (GroupLinesIntoFoundations); these state what the *)
(* matching loop of lines 170-244 does with the lines of the call *)

\* the horizontal and the vertical list positions one Foundation was built from
HorizontalSides(s) == {s.i, s.j2}

VerticalSides(s) == {s.vertical_found[1], s.vertical_found[2]}

\* C16: no input line is a side of more than one reported Foundation: once
\* a rectangle has been reported, none of its two horizontal and two
\* vertical lines is matched again in the same call.
C16_NoLineMatchedTwice ==
    f_pc = "done"
        => LET r == MatchRectangles(f_lines)
           IN  /\ Len(r.sides) = Len(r.foundations)
               /\ \A a \in DOMAIN r.sides :
                      /\ Cardinality(HorizontalSides(r.sides[a])) = 2
                      /\ Cardinality(VerticalSides(r.sides[a])) = 2
               /\ \A a, b \in DOMAIN r.sides :
                      a # b
                          => /\ HorizontalSides(r.sides[a])
                                    \cap HorizontalSides(r.sides[b]) = {}
                             /\ VerticalSides(r.sides[a])
                                    \cap VerticalSides(r.sides[b]) = {}

\* a rectangle was matched, and the scan then came to its second horizontal
\* side, which still faces the first across the same two vertical lines
C16_Witness ==
    /\ f_pc = "done"
    /\ LET r == MatchRectangles(f_lines)
           hl == HorizontalLines(f_lines)
       IN  /\ Len(r.sides) = 1
           /\ r.sides[1].j2 > r.sides[1].i
           /\ FindOpposite(hl, r.sides[1].j2, 1, {}) = r.sides[1].i


---------------------------------------------------------------------------
(* Further properties of the detected grid, checked under GridSpec *)

\* the grid lines of a detected grid that carry the labels of intersection x
HorizontalOf(x) == {i \in DOMAIN grid.horizontal_lines : grid.horizontal_lines[i].label = x.grid_h}

VerticalOf(x) == {j \in DOMAIN grid.vertical_lines : grid.vertical_lines[j].label = x.grid_v}

\* c is the smaller of the confidences a and b
IsMinOf(c, a, b) == /\ c \in {a, b}
                    /\ RLe(c, a)
                    /\ RLe(c, b)

\* C17: each GridIntersection of a detected grid has its point at (midpoint X
\* of its vertical line, midpoint Y of its horizontal line) and its confidence
\* equal to the minimum of the confidences of those two grid lines.
C17_IntersectionPointAndConfidence ==
    Detected
        => \A k \in DOMAIN grid.intersections :
               LET x == grid.intersections[k]
               IN  /\ HorizontalOf(x) # {}
                   /\ VerticalOf(x) # {}
                   /\ \A i \in HorizontalOf(x), j \in VerticalOf(x) :
                          LET h == grid.horizontal_lines[i]
                              v == grid.vertical_lines[j]
                          IN  /\ x.point.x = Rat(v.line.start.x + v.line.end.x, 2)
                              /\ x.point.y = Rat(h.line.start.y + h.line.end.y, 2)
                              /\ IsMinOf(x.confidence, h.confidence, v.confidence)

\* a detected grid with an intersection whose vertical line is the less
\* confident one, and with one whose horizontal line is, neither at the
\* middle of its horizontal line
C17_Witness ==
    /\ Detected
    /\ \E k \in DOMAIN grid.intersections :
           LET x == grid.intersections[k]
           IN  \E i \in HorizontalOf(x), j \in VerticalOf(x) :
                   LET h == grid.horizontal_lines[i]
                       v == grid.vertical_lines[j]
                   IN  /\ RLt(v.confidence, h.confidence)
                       /\ x.confidence = v.confidence
                       /\ x.point.x # Rat(h.line.start.x + h.line.end.x, 2)
    /\ \E k \in DOMAIN grid.intersections :
           LET x == grid.intersections[k]
           IN  \E i \in HorizontalOf(x), j \in VerticalOf(x) :
                   LET h == grid.horizontal_lines[i]
                       v == grid.vertical_lines[j]
                   IN  /\ RLt(h.confidence, v.confidence)
                       /\ x.confidence = h.confidence


\* the direction of a centerline as a vector; a centerline without length
\* has the angle atan2(0, 0) = 0
DirectionOf(l) == IF Dx(l) = 0 /\ Dy(l) = 0 THEN [x |-> 1, y |-> 0] ELSE [x |-> Dx(l), y |-> Dy(l)]

\* the two directions agree modulo pi within the angle tolerance: the angle
\* between the two lines, whichever way each points, is below it
DirectionsAgreeModPi(l1, l2) ==
    LET a == DirectionOf(l1)
        b == DirectionOf(l2)
        cross == a.x * b.y - a.y * b.x
        dot == a.x * b.x + a.y * b.y
    IN  Abs(cross) * MergeAngleTanDen < MergeAngleTanNum * Abs(dot)

MeetAtRightAngle(l1, l2) ==
    /\ LengthSq(l1) # 0
    /\ LengthSq(l2) # 0
    /\ Dx(l1) * Dx(l2) + Dy(l1) * Dy(l2) = 0

\* p is less than CollinearTolerance off the line through a and b
NearLine(p, a, b) ==
    LET dx == b.x - a.x
        dy == b.y - a.y
        num == Abs(dy * (p.x - a.x) - dx * (p.y - a.y))
    IN  \/ a = b
        \/ num * num < CollinearTolerance * CollinearTolerance * (dx * dx + dy * dy)

\* some endpoint of l1 is closer than the point tolerance to some endpoint of
\* l2, and that shared endpoint is near the line through the other two ends
SharedEndpointOnLine(l1, l2) ==
    \E e1 \in {"start", "end"}, e2 \in {"start", "end"} :
        LET s1 == IF e1 = "start" THEN l1.start ELSE l1.end
            o1 == IF e1 = "start" THEN l1.end ELSE l1.start
            s2 == IF e2 = "start" THEN l2.start ELSE l2.end
            o2 == IF e2 = "start" THEN l2.end ELSE l2.start
        IN  /\ DistSq(s1, s2) < PointTolerance * PointTolerance
            /\ NearLine(s1, o1, o2)

AllFourConditions(w1, w2) ==
    /\ Abs(w1.thickness - w2.thickness) <= 1
    /\ Abs(w1.height - w2.height) <= 1
    /\ DirectionsAgreeModPi(w1.centerline, w2.centerline)
    /\ ~MeetAtRightAngle(w1.centerline, w2.centerline)
    /\ SharedEndpointOnLine(w1.centerline, w2.centerline)

\* C18: merge_wall_segments merges two walls only if thickness and height
\* each differ by at most 1.0, the centerline directions agree modulo pi
\* within the angle tolerance, some endpoint of one is closer than the point
\* tolerance to some endpoint of the other, and the shared endpoint lies less
\* than 50 units off the line through the two non-shared endpoints; two walls
\* meeting at a right angle, or of different thickness, are never merged.
C18_MergesOnlyWhenAllFour ==
    PassRun
        => \A k \in DOMAIN pass_output :
               ~PassedThrough(k)
                   => \A i, j \in DOMAIN pass_input :
                          (i < j /\ Contributes(i, k) /\ Contributes(j, k))
                              => AllFourConditions(pass_input[i], pass_input[j])


---------------------------------------------------------------------------
(* Further properties of detect_wall_intersections, checked under *)
(* IntersectSpec *)

\* the candidates detect_wall_intersections collects for the walls
CandidatesOf(ws) == CrossingCandidates(ws, 1, 2, EndpointCandidates(ws))

\* the positions of the candidates a chain of steps, each shorter than the
\* endpoint tolerance, reaches from the positions S
RECURSIVE ChainFrom(_, _)
ChainFrom(cs, S) ==
    LET T == S \cup {o \in DOMAIN cs :
                        \E s \in S : RWithin(cs[s].point, cs[o].point, EndpointTolerance)}
    IN  IF T = S THEN S ELSE ChainFrom(cs, T)

\* the candidates split into chains, each a set of positions
Chains(cs) == {ChainFrom(cs, {k}) : k \in DOMAIN cs}

WallsOfChain(cs, C) == {cs[k].wall : k \in C}

\* the WallIntersection of a whole chain: the mean of its points, its walls
ChainIntersection(cs, C) ==
    LET order == Sorted(C)
    IN  WallIntersection(
            [x |-> RDiv(RSum([k \in DOMAIN order |-> cs[order[k]].point.x]), RInt(Len(order))),
             y |-> RDiv(RSum([k \in DOMAIN order |-> cs[order[k]].point.y]), RInt(Len(order)))],
            Sorted(WallsOfChain(cs, C)))

Detection == i_pc \in {"adjust", "done"} /\ Len(i_walls) >= 2

\* C19: intersection candidates are grouped transitively: two candidate
\* points connected by a chain of candidates, each within endpoint_tolerance
\* of the next, always end up in the same WallIntersection group, whatever
\* the order of the walls.  The groups are then the chains, and the reported
\* intersections are those of the chains that hold more than one wall.
C19_GroupedTransitively ==
    Detection
        => LET cs == CandidatesOf(i_walls)
               meeting == {C \in Chains(cs) : Cardinality(WallsOfChain(cs, C)) > 1}
           IN  /\ Len(intersections) = Cardinality(meeting)
               /\ Range(intersections) = {ChainIntersection(cs, C) : C \in meeting}


---------------------------------------------------------------------------
(* Regularity of the detected grid, checked under GridSpec *)

\* the gaps between consecutive lines of one axis of the returned grid
GapsOf(grid_lines, is_vertical) ==
    [i \in 1 .. Len(grid_lines) - 1 |->
        RAbs(RSub(Position(grid_lines[i + 1].line, is_vertical),
                  Position(grid_lines[i].line, is_vertical)))]

\* gap g deviates from the mean gap by strictly less than spacing_tolerance
\* times the mean
WithinTolerance(g, mean) == RLt(RAbs(RSub(g, mean)), RMul(SpacingTolerance, mean))

EveryGapWithinTolerance(grid_lines, is_vertical) ==
    LET gaps == GapsOf(grid_lines, is_vertical)
    IN  \A i \in DOMAIN gaps : WithinTolerance(gaps[i], RMean(gaps))

\* C20: an axis counts as regular only if every gap between consecutive
\* lines deviates from the mean gap by strictly less than spacing_tolerance
\* times the mean; a gap that deviates by exactly the tolerance fraction
\* makes is_regular False.
C20_RegularOnlyBelowTolerance ==
    (Detected /\ grid.is_regular)
        => /\ EveryGapWithinTolerance(grid.horizontal_lines, FALSE)
           /\ EveryGapWithinTolerance(grid.vertical_lines, TRUE)


---------------------------------------------------------------------------
(* Properties of adjust_walls_at_intersections, checked under IntersectSpec *)

Adjusted == i_pc = "done"

\* endpoint e of input wall i is within snap_tolerance of intersection k,
\* which lists the wall
SnapsTo(i, e, k) ==
    /\ i \in Range(intersections[k].wall_indices)
    /\ RWithin(RPt(EndPt(i_walls[i], e)), intersections[k].point, SnapTolerance)

\* C21: at an intersection listing three or more walls each member wall's
\* endpoint within snap_tolerance is set exactly to the intersection point,
\* without extension; an extension, by half of the other wall's thickness, is
\* applied only at intersections that list exactly two walls.
C21_SnapWithoutExtension ==
    Adjusted
        => /\ \A k \in DOMAIN intersections, i \in DOMAIN i_walls, e \in Ends :
                  (Len(intersections[k].wall_indices) >= 3 /\ SnapsTo(i, e, k))
                      => adjusted_walls[i].centerline[e] = Plain(intersections[k].point)
           /\ \A i \in DOMAIN i_walls, e \in Ends :
                  adjusted_walls[i].centerline[e].extension # RInt(0)
                      => \E k \in DOMAIN intersections :
                             /\ Len(intersections[k].wall_indices) = 2
                             /\ SnapsTo(i, e, k)
                             /\ adjusted_walls[i].centerline[e].base = intersections[k].point
                             /\ \E o \in Range(intersections[k].wall_indices) \ {i} :
                                    adjusted_walls[i].centerline[e].extension
                                        = Rat(i_walls[o].thickness, 2)


\* wall i is in no intersection, or both its endpoints are at least
\* snap_tolerance away from every intersection that lists it
Untouched(i) == \A k \in DOMAIN intersections, e \in Ends : ~SnapsTo(i, e, k)

\* the wall returned at place i is the input wall itself, as it was given
SameRecord(i) ==
    /\ adjusted_walls[i].guid = i_walls[i].guid
    /\ \A e \in Ends : adjusted_walls[i].centerline[e] = Plain(RPt(EndPt(i_walls[i], e)))
    /\ [adjusted_walls[i] EXCEPT !.centerline = i_walls[i].centerline] = i_walls[i]

\* the wall returned at place i was made from the input wall at place i
MadeFrom(i) ==
    \/ adjusted_walls[i].guid = i_walls[i].guid
    \/ adjusted_walls[i].guid = Append(i_walls[i].guid, 0)

SameLengthAndOrder ==
    Adjusted
        => /\ Len(adjusted_walls) = Len(i_walls)
           /\ \A i \in DOMAIN i_walls :
                  /\ MadeFrom(i)
                  /\ Untouched(i) => SameRecord(i)

---------------------------------------------------------------------------
(* Degenerate geometry in detect_wall_intersections, checked under *)
(* IntersectSpec *)

ZeroLength(l) == l.start = l.end

\* parallel, coincident, or one of the two without length
DegeneratePair(l1, l2) == Dx(l1) * Dy(l2) - Dy(l1) * Dx(l2) = 0

\* the crossing candidates are entered in pairs, for wall i and then wall j
CrossingOfPair(cs, i, j) ==
    \E k \in DOMAIN cs :
        /\ k + 1 \in DOMAIN cs
        /\ cs[k].kind = "crossing" /\ cs[k].wall = i
        /\ cs[k + 1].kind = "crossing" /\ cs[k + 1].wall = j
        /\ cs[k + 1].point = cs[k].point

\* C23: detect_wall_intersections never raises for degenerate geometry: a
\* pair of parallel or coincident walls, or a pair containing a zero-length
\* wall, is skipped by the segment-intersection step (no crossing candidate,
\* no division by zero) and the call still returns a list of intersections.
C23_DegeneratePairsSkipped ==
    Detection
        => /\ \A i, j \in DOMAIN i_walls :
                  i < j
                      => LET l1 == i_walls[i].centerline
                             l2 == i_walls[j].centerline
                         IN  /\ 0 \notin Divisors(l1, l2)
                             /\ DegeneratePair(l1, l2)
                                    => /\ LinesIntersect(l1, l2, IntersectionTolerance) = NoPoint
                                       /\ ~CrossingOfPair(CandidatesOf(i_walls), i, j)
           /\ DOMAIN intersections = 1 .. Len(intersections)
           /\ \A k \in DOMAIN intersections :
                  /\ ~IsNone(intersections[k].point.x)
                  /\ ~IsNone(intersections[k].point.y)

\* the walls of the call hold one without length, two that coincide and one
\* that crosses them, and intersections were returned
C23_Witness ==
    /\ Detection
    /\ Len(intersections) >= 1
    /\ \E i, j, k \in DOMAIN i_walls :
           /\ ZeroLength(i_walls[i].centerline)
           /\ j # k
           /\ ~ZeroLength(i_walls[j].centerline)
           /\ {i_walls[j].centerline.start, i_walls[j].centerline.end}
                  = {i_walls[k].centerline.start, i_walls[k].centerline.end}


\* the sides of the lines ls, each as the set of its two endpoints
SidesOf(ls) == {{ls[i].start, ls[i].end} : i \in DOMAIN ls}

\* the lower left corners of the complete 300 x 300 squares among ls
SquareCorners(ls) == {c \in LowerLeftCorners(ls) : SquareSides(c.x, c.y) \subseteq SidesOf(ls)}

\* two squares lie farther apart than the matching tolerance
FarApart(c, d) ==
    \/ Abs(c.x - d.x) > PileSize + MatchTolerance
    \/ Abs(c.y - d.y) > PileSize + MatchTolerance

\* ls is made of complete squares that share no lines and lie far apart
MadeOfSquares(ls) ==
    /\ Len(ls) >= 4
    /\ Cardinality(SidesOf(ls)) = Len(ls)
    /\ SidesOf(ls) = UNION {SquareSides(c.x, c.y) : c \in SquareCorners(ls)}
    /\ Len(ls) = 4 * Cardinality(SquareCorners(ls))
    /\ \A c, d \in SquareCorners(ls) : c # d => FarApart(c, d)

\* C24: for an input made of k complete 300 x 300 rectangles that share no
\* lines and lie farther apart than the matching tolerance, the matching
\* loop of group_lines_into_foundations reports exactly k Foundations
\* whatever the order of the lines: a line is skipped as consumed only if
\* that line itself was a side of an earlier reported rectangle.
C24_EverySquareReported ==
    (f_pc = "done" /\ MadeOfSquares(f_lines))
        => Len(MatchRectangles(f_lines).foundations) = Cardinality(SquareCorners(f_lines))


---------------------------------------------------------------------------
(* Properties of the walls _merge_two_walls builds, checked under MergeSpec *)

\* the places in the pass's input of the two parents of the merged wall k
ParentsOf(k) == {i \in DOMAIN pass_input : Contributes(i, k)}

ParentEndpoints(k) ==
    UNION {{pass_input[i].centerline.start, pass_input[i].centerline.end} : i \in ParentsOf(k)}

\* C25: a merged wall covers both of its parents: its centerline spans the
\* outermost two of the four parent endpoints, so it is never shorter than
\* either parent wall; a second segment that doubles back over the first is
\* not merged into a shorter wall.
C25_MergedWallCoversParents ==
    PassRun
        => \A k \in DOMAIN pass_output :
               ~PassedThrough(k)
                   => /\ \A p, q \in ParentEndpoints(k) :
                             DistSq(p, q) <= LengthSq(pass_output[k].centerline)
                      /\ \A i \in ParentsOf(k) :
                             LengthSq(pass_input[i].centerline)
                                 <= LengthSq(pass_output[k].centerline)


---------------------------------------------------------------------------
(* The rectangle behind each Foundation of the matching loop, checked under *)
(* FoundationSpec *)

\* the vertical line v stands at the X position x, within the tolerance
StandsAt(v, x) == RNear(XMid(v), RInt(x), MatchTolerance)

\* the two vertical lines of the match s stand at opposite ends of its first
\* horizontal line
OppositeEnds(s, hl, vl) ==
    LET line1 == hl[s.i]
        a == vl[s.vertical_found[1]]
        b == vl[s.vertical_found[2]]
    IN  \/ StandsAt(a, XMin(line1)) /\ StandsAt(b, XMax(line1))
        \/ StandsAt(a, XMax(line1)) /\ StandsAt(b, XMin(line1))

\* C26: a Foundation is reported only when the four matched lines form a
\* closed rectangle: the two matched vertical lines lie at opposite
\* X-extents of the horizontal pair, one near its minimum X and one near its
\* maximum X; two vertical lines at the same side never complete a rectangle.
C26_VerticalsAtOppositeEnds ==
    f_pc = "done"
        => LET r == MatchRectangles(f_lines)
           IN  \A a \in DOMAIN r.sides :
                   OppositeEnds(r.sides[a], HorizontalLines(f_lines), VerticalLines(f_lines))


\* C27: merging keeps the wall attributes it does not compute: a wall
\* produced by merging walls whose is_exterior (or is_structural) flag is
\* True still has that flag True, along with the parent's thickness, height
\* and source layer.
C27_MergeKeepsAttributes ==
    PassRun
        => \A k \in DOMAIN pass_output :
               ~PassedThrough(k)
                   => /\ (\A i \in ParentsOf(k) : pass_input[i].is_exterior)
                             => pass_output[k].is_exterior
                      /\ (\A i \in ParentsOf(k) : pass_input[i].is_structural)
                             => pass_output[k].is_structural
                      /\ \E i \in ParentsOf(k) :
                             /\ pass_output[k].thickness = pass_input[i].thickness
                             /\ pass_output[k].height = pass_input[i].height
                             /\ pass_output[k].source_layer = pass_input[i].source_layer



---------------------------------------------------------------------------
(* Average spacing of the detected grid, checked under GridSpec *)

\* a and b are the same number (neither is None)
SameNumber(a, b) == ~IsNone(a) /\ ~IsNone(b) /\ a.n * b.d = b.n * a.d

\* the average spacing avg reported for one axis is the mean of all gaps
\* between consecutive lines of that axis
MeanOfAllGaps(avg, grid_lines, is_vertical) ==
    LET gaps == GapsOf(grid_lines, is_vertical)
    IN  IF Len(gaps) = 0 THEN IsNone(avg) ELSE SameNumber(avg, RMean(gaps))

\* the regularity test of the code applied to all gaps of one axis
AllGapsRegular(grid_lines, is_vertical) ==
    LET gaps == GapsOf(grid_lines, is_vertical)
    IN  Len(gaps) > 0 => IsSpacingRegular(gaps, RMean(gaps))

\* C28: for a returned grid avg_h_spacing (avg_v_spacing) is the arithmetic
\* mean of all gaps between consecutive horizontal (vertical) grid lines,
\* zero-width gaps between lines at the same position included, and
\* is_regular is the regularity test applied to that same full set of gaps.
C28_AverageOverAllGaps ==
    Detected
        => /\ MeanOfAllGaps(grid.avg_h_spacing, grid.horizontal_lines, FALSE)
           /\ MeanOfAllGaps(grid.avg_v_spacing, grid.vertical_lines, TRUE)
           /\ grid.is_regular <=> /\ AllGapsRegular(grid.horizontal_lines, FALSE)
                                  /\ AllGapsRegular(grid.vertical_lines, TRUE)



---------------------------------------------------------------------------
(* Segment counts and confidences of merged walls, checked under MergeSpec *)

\* the segments wall w stands for: 1 for a wall that was never merged
SegmentsOf(w) == IF w.metadata.merged_from = <<>> THEN 1 ELSE w.metadata.segment_count

RECURSIVE SegmentsIn(_)
SegmentsIn(ws) == IF ws = <<>> THEN 0 ELSE SegmentsOf(Head(ws)) + SegmentsIn(Tail(ws))

\* the first call, whose input walls carry no segment_count, has entered its
\* loop
FirstCallRunning == call_no = 1 /\ m_pc \in {"loop", "done"}

\* c is the average of the confidences of the walls at places i and j of the
\* pass's input
AverageOfParents(c, i, j) ==
    SameNumber(c, RDiv(RAdd(pass_input[i].confidence, pass_input[j].confidence), RInt(2)))

\* C29: after any number of merge passes over input walls that carry no
\* segment_count metadata the segment_count values of the output walls
\* (1 for a wall that was never merged) sum to the number of input walls, and
\* each merged wall's confidence is the average of its two parents'
\* confidences and lies within [0, 1].
C29_SegmentCountAndConfidence ==
    /\ FirstCallRunning => SegmentsIn(merged_walls) = Len(walls)
    /\ PassRun
           => \A k \in DOMAIN pass_output :
                  ~PassedThrough(k)
                      => /\ \E i \in ParentsOf(k), j \in ParentsOf(k) :
                               /\ i # j
                               /\ ParentsOf(k) = {i, j}
                               /\ AverageOfParents(pass_output[k].confidence, i, j)
                         /\ RLe(RInt(0), pass_output[k].confidence)
                         /\ RLe(pass_output[k].confidence, RInt(1))

\* three walls have become one wall of three segments in two passes, its
\* confidence different from that of each input wall
C29_Witness ==
    /\ FirstCallRunning
    /\ m_pc = "done"
    /\ Len(walls) = 3
    /\ merging_passes = 2
    /\ Len(merged_walls) = 1
    /\ merged_walls[1].metadata.segment_count = 3
    /\ \A i \in DOMAIN walls : ~SameNumber(walls[i].confidence, merged_walls[1].confidence)



---------------------------------------------------------------------------
(* The element type of Foundation, checked under FoundationSpec *)

\* every record of the list fs names a member of ElementType
TypedByMembers(fs) == \A k \in DOMAIN fs : fs[k].element_type \in ElementTypeMembers

\* C30: every element record has an element_type that is a member of the
\* enumeration ElementType; the type Foundation names is a member that
\* exists, so group_lines_into_foundations can construct Foundations and
\* return them.
C30_FoundationTypeExists ==
    f_pc = "done"
        => /\ f_result.status = "returned"
           /\ TypedByMembers(f_result.foundations)
           /\ TypedByMembers(MatchRectangles(f_lines).foundations)

=============================================================================
